---- MODULE Spec2Model ----
(***************************************************************************)
(* Model of the native Gemini protocol adapter                             *)
(* (ha-config-ai-agent/src/agents/gemini_client.py).                       *)
(*                                                                         *)
(* Two state machines share this module:                                   *)
(*   SpecBuild  the request translator GeminiClient._build_contents, one   *)
(*              step per iteration of its loop over the messages;          *)
(*   Spec       the streaming translator                                   *)
(*              GeminiClient.generate_content_stream: one step per await   *)
(*              on the transport, per Part of a chunk (its text, then its  *)
(*              functionCall) and per resumption by the caller; the        *)
(*              variable events is the sequence of events yielded so far.  *)
(*                                                                         *)
(* Conventions for Python values:                                          *)
(*   - a dict is a record; a missing key is a missing field, read with     *)
(*     Get(d, k, default) like dict.get;                                   *)
(*   - a Python str is a TLA+ string; split, slicing, concatenation and    *)
(*     formatting are computed on it with Len, SubSeq and \o;              *)
(*   - where the code reads an optional str (a thought_signature, a name)  *)
(*     None stands for Python's None;                                      *)
(*   - a value whose Python type varies (a message's content, a Part's     *)
(*     text) is a tagged record [t |-> "none" | "str" | "list" | "num"].   *)
(***************************************************************************)
EXTENDS Integers, Sequences, FiniteSets, TLC

VARIABLES
    \* ---- request translator (_build_contents) ----
    messages,                    \* the caller's message list
    msg_idx,                     \* number of messages the loop has processed
    contents,                    \* the list being built
    pending_thought_signatures,  \* function name -> thought_signature
    origin,                      \* ghost: origin[k] = index of the message contents[k] was built from
    \* ---- streaming translator (generate_content_stream) ----
    script,                      \* what the transport will do during this call
    tools,                       \* the caller's tool definitions
    temperature,                 \* self.temperature
    request_body,                \* the JSON body handed to session.post
    pc,                          \* where the generator is suspended
    session,                     \* "none" | "open" | "closed": the aiohttp session/response
    line_idx,                    \* number of body lines read so far
    cursor,                      \* position inside the chunk being processed
    accumulated_text,
    accumulated_tool_calls,
    usage_info,
    events,                      \* the events yielded to the caller so far, in order
    run,                         \* ordinal of the current invocation
    prev_events,                 \* events of the previous invocation (same input)
    \* ---- the caller ----
    pending_arg,                 \* the pending_thought_signatures object the caller passes
    consumer,                    \* "iterating" | "raised" | "returned" | "stopped" | "closed"
    consumed,                    \* number of events the consumer has received
    result,                      \* the result dict of generate_content
    \* ---- concurrent invocations on one client ----
    invocations,                 \* invocation number -> the locals of that invocation
    \* ---- the model-name predicates ----
    model,                       \* the model name a caller asks about
    model_checks,                \* predicate name -> the answer it returned for model
    \* ---- the integration's setup (custom_components) ----
    fetch,                       \* one call of fetch_models_from_provider
    flow,                        \* the fields of the aiassistant ConfigFlow object
    flow_result,                 \* the FlowResult the last step returned
    entries,                     \* the config entries created
    os_environ,                  \* os.environ: variable name -> value, or Unset
    validation                   \* one call of validate_input of ai_config_agent

build_vars == <<messages, msg_idx, contents, pending_thought_signatures, origin>>
stream_vars == <<script, tools, temperature, request_body, pc, session, line_idx, cursor, accumulated_text,
                 accumulated_tool_calls, usage_info, events, run, prev_events>>
setup_vars == <<fetch, flow, flow_result, entries, os_environ, validation>>
caller_vars == <<pending_arg, consumer, consumed, result, invocations, model, model_checks,
                 setup_vars>>
vars == <<build_vars, stream_vars, caller_vars>>

-----------------------------------------------------------------------------
(* Bounds *)

MaxLines == 2      \* lines in a response body
MaxRuns == 2       \* invocations of generate_content_stream
MaxMsgs == 3       \* messages in a conversation
MaxOrdinal == 1    \* ordinals of the tool calls of one turn

-----------------------------------------------------------------------------
(* Python values *)

None == "None"

\* dict.get(k, default)
Get(d, k, default) == IF k \in DOMAIN d THEN d[k] ELSE default

\* the empty dict
EmptyDict == [k \in {} |-> None]

\* d[k] = v
DictSet(d, k, v) == [x \in (DOMAIN d) \cup {k} |-> IF x = k THEN v ELSE d[x]]

\* truthiness of an optional string token (None and "" are falsy)
Truthy(s) == s # None /\ s # ""

PyNone == [t |-> "none"]
PyStr(s) == [t |-> "str", v |-> s]
\* a list keeps its items in a field of its own: TLC compares the fields of two
\* records of one shape, and a string does not compare with a tuple
PyList(l) == [t |-> "list", items |-> l]
PyNum(n) == [t |-> "num", v |-> n]

\* truthiness of a tagged value
PyTruthy(x) ==
    CASE x.t = "none" -> FALSE
      [] x.t = "str" -> x.v # ""
      [] x.t = "list" -> x.items # <<>>
      [] x.t = "num" -> x.v # 0
      [] OTHER -> TRUE

-----------------------------------------------------------------------------
(* Strings *)

DigitChars == <<"0", "1", "2", "3", "4", "5", "6", "7", "8", "9">>

\* str(n) for n >= 0, as an f-string formats it
RECURSIVE IntToStr(_)
IntToStr(n) ==
    IF n < 10 THEN DigitChars[n + 1]
    ELSE IntToStr(n \div 10) \o DigitChars[(n % 10) + 1]

\* c in s, for a one-character c
Contains(s, c) == \E i \in 1..Len(s) : SubSeq(s, i, i) = c

\* s.split(c)[0]
SplitFirst(s, c) ==
    IF Contains(s, c)
    THEN LET i == CHOOSE j \in 1..Len(s) :
                      /\ SubSeq(s, j, j) = c
                      /\ \A k \in 1..(j - 1) : SubSeq(s, k, k) # c
         IN SubSeq(s, 1, i - 1)
    ELSE s

\* faulty variant: the whole string is kept
Truncate_Whole(s, n) == s

\* s[:n]
Truncate(s, n) == IF Len(s) <= n THEN s ELSE SubSeq(s, 1, n)

-----------------------------------------------------------------------------
(* json.loads / json.dumps on the JSON texts and values of the model *)

JsonEmptyObject == [t |-> "dict", v |-> EmptyDict]
JsonObjectX == [t |-> "dict", v |-> [x |-> 1]]

\* json.loads(text): ok = FALSE stands for json.JSONDecodeError
json_loads(text) ==
    CASE text = "{}" -> [ok |-> TRUE, value |-> JsonEmptyObject]
      [] text = "{\"x\": 1}" -> [ok |-> TRUE, value |-> JsonObjectX]
      [] text = "5" -> [ok |-> TRUE, value |-> PyNum(5)]
      [] OTHER -> [ok |-> FALSE, value |-> PyNone]

\* json.dumps(value)
json_dumps(value) ==
    CASE value.t = "dict" /\ value = JsonEmptyObject -> "{}"
      [] value.t = "dict" /\ value = JsonObjectX -> "{\"x\": 1}"
      [] value.t = "num" /\ value = PyNum(5) -> "5"
      [] OTHER -> "null"

-----------------------------------------------------------------------------
(* GeminiClient._build_contents, gemini_client.py lines 76-186 *)

\* faulty variant: the message role is passed through
GeminiRole_Identity(role) == role

\* lines 101-107: the Gemini role of a message role
GeminiRole(role) ==
    CASE role = "assistant" -> "model"
      [] role = "tool" -> "function"
      [] OTHER -> "user"

\* lines 117-119: the text Parts of a list content, one per text segment
RECURSIVE SegmentParts(_)
SegmentParts(items) ==
    IF items = <<>> THEN <<>>
    ELSE LET item == Head(items)
         IN (IF Get(item, "type", None) = "text"
             THEN <<[text |-> Get(item, "text", "")]>>
             ELSE <<>>) \o SegmentParts(Tail(items))

\* faulty variant: the text of a tool message becomes a text Part as well
TextParts_IgnoreRole(msg, role) ==
    LET content == Get(msg, "content", PyNone)
    IN IF PyTruthy(content)
       THEN CASE content.t = "str" -> <<[text |-> content.v]>>
              [] content.t = "list" -> SegmentParts(content.items)
              [] OTHER -> <<>>
       ELSE <<>>

\* lines 111-119: the text Parts of a message
TextParts(msg, role) ==
    LET content == Get(msg, "content", PyNone)
    IN IF PyTruthy(content) /\ role # "tool"
       THEN CASE content.t = "str" -> <<[text |-> content.v]>>
              [] content.t = "list" -> SegmentParts(content.items)
              [] OTHER -> <<>>
       ELSE <<>>

\* lines 124-148: the functionCall Part of one tool_call
FunctionCallPart(tc) ==
    LET func == Get(tc, "function", EmptyDict)
        args_str == Get(func, "arguments", "{}")
        parsed == json_loads(args_str)
        args == IF parsed.ok THEN parsed.value ELSE JsonEmptyObject
        thought_sig == Get(tc, "thought_signature", None)
        base == [name |-> Get(func, "name", ""), args |-> args]
    IN IF Truthy(thought_sig)
       THEN [functionCall |-> [name |-> base.name, args |-> base.args,
                               thought_signature |-> thought_sig]]
       ELSE [functionCall |-> base]

\* lines 141-146: the pending map after one tool_call
RecordPending(pending, tc) ==
    LET func == Get(tc, "function", EmptyDict)
        thought_sig == Get(tc, "thought_signature", None)
    IN IF Truthy(thought_sig)
       THEN DictSet(pending, Get(func, "name", ""), thought_sig)
       ELSE pending

\* lines 121-148: the loop over an assistant message's tool_calls
RECURSIVE ToolCallParts(_, _)
ToolCallParts(tcs, pending) ==
    IF tcs = <<>> THEN [parts |-> <<>>, pending |-> pending]
    ELSE LET rest == ToolCallParts(Tail(tcs), RecordPending(pending, Head(tcs)))
         IN [parts |-> <<FunctionCallPart(Head(tcs))>> \o rest.parts,
             pending |-> rest.pending]

\* faulty variant: the tool_call_id is split even when function_name is given
ResolveFunctionName_IgnoreField(msg) ==
    LET tool_call_id == Get(msg, "tool_call_id", "")
    IN IF Contains(tool_call_id, "_") THEN SplitFirst(tool_call_id, "_")
       ELSE tool_call_id

\* lines 152-156: the function name a tool-role message refers to
ResolveFunctionName(msg) ==
    LET func_name == Get(msg, "function_name", "")
        tool_call_id == Get(msg, "tool_call_id", "")
    IN IF func_name # "" THEN func_name
       ELSE IF Contains(tool_call_id, "_") THEN SplitFirst(tool_call_id, "_")
       ELSE tool_call_id

\* faulty variant: the raw text of an unparsable tool result is lost
ResponseData_DropRaw(msg) ==
    LET content_str == Get(msg, "content", PyStr("{}"))
    IN IF content_str.t = "str"
       THEN LET parsed == json_loads(content_str.v)
            IN IF parsed.ok THEN parsed.value ELSE JsonEmptyObject
       ELSE content_str

\* lines 158-165: the response payload of a tool-role message
ResponseData(msg) ==
    LET content_str == Get(msg, "content", PyStr("{}"))
    IN IF content_str.t = "str"
       THEN LET parsed == json_loads(content_str.v)
            IN IF parsed.ok THEN parsed.value
               ELSE [t |-> "dict", v |-> [result |-> content_str.v]]
       ELSE content_str

\* line 175: the signature echoed on a functionResponse
EchoedSignature(msg, func_name, pending) ==
    LET own == Get(msg, "thought_signature", None)
    IN IF Truthy(own) THEN own ELSE Get(pending, func_name, None)

\* lines 150-181: the functionResponse Part of a tool-role message
FunctionResponsePart(msg, pending) ==
    LET func_name == ResolveFunctionName(msg)
        thought_sig == EchoedSignature(msg, func_name, pending)
        base == [name |-> func_name, response |-> ResponseData(msg)]
    IN IF Truthy(thought_sig)
       THEN [functionResponse |-> [name |-> base.name, response |-> base.response,
                                   thought_signature |-> thought_sig]]
       ELSE [functionResponse |-> base]

\* lines 95-184: one iteration of the loop: the Parts the message yields, the
\* role of its entry, the pending map afterwards; skip = a system message
TranslateMessage(msg, pending) ==
    LET role == Get(msg, "role", "user")
        calls == IF role = "assistant" /\ "tool_calls" \in DOMAIN msg
                 THEN ToolCallParts(msg.tool_calls, pending)
                 ELSE [parts |-> <<>>, pending |-> pending]
        resp == IF role = "tool"
                THEN <<FunctionResponsePart(msg, calls.pending)>>
                ELSE <<>>
    IN IF role = "system"
       THEN [skip |-> TRUE, role |-> "user", parts |-> <<>>, pending |-> pending]
       ELSE [skip |-> FALSE,
             role |-> GeminiRole(role),
             parts |-> TextParts(msg, role) \o calls.parts \o resp,
             pending |-> calls.pending]

\* faulty variant: an entry is appended also when the message yields no Part
AppendEntry_KeepEmpty(cs, tr) ==
    IF ~tr.skip
    THEN Append(cs, [role |-> tr.role, parts |-> tr.parts])
    ELSE cs

\* lines 183-184: the contents list after one message
AppendEntry(cs, tr) ==
    IF ~tr.skip /\ tr.parts # <<>>
    THEN Append(cs, [role |-> tr.role, parts |-> tr.parts])
    ELSE cs

\* lines 91-186: the whole function, as generate_content_stream calls it
RECURSIVE BuildFrom(_, _, _)
BuildFrom(msgs, cs, pending) ==
    IF msgs = <<>> THEN cs
    ELSE LET tr == TranslateMessage(Head(msgs), pending)
         IN BuildFrom(Tail(msgs), AppendEntry(cs, tr), tr.pending)

\* line 92: "pending_thought_signatures or {}"
_build_contents(msgs, pending) == BuildFrom(msgs, <<>>, pending)

\* lines 92 and 223, "pending_thought_signatures or {}": a non-empty dict the
\* caller passes is used as it is, the same object; None and an empty dict
\* are falsy and give a new empty dict
Aliased(arg) == arg.t = "dict" /\ arg.v # EmptyDict

LocalPending(arg) == IF Aliased(arg) THEN arg.v ELSE EmptyDict

\* lines 94-146: the map after the whole loop
RECURSIVE PendingAfter(_, _)
PendingAfter(msgs, pending) ==
    IF msgs = <<>> THEN pending
    ELSE PendingAfter(Tail(msgs), TranslateMessage(Head(msgs), pending).pending)

\* line 146: the store goes into the caller's object when the map is that object
CallerMapAfter(arg, pending) ==
    IF Aliased(arg) THEN [t |-> "dict", v |-> pending] ELSE arg

-----------------------------------------------------------------------------
(* GeminiClient._build_tools and _get_system_instruction *)

\* faulty variant: the declarations come out in reverse input order
RECURSIVE FunctionDeclarations_Reversed(_)
FunctionDeclarations_Reversed(tool_definitions) ==
    IF tool_definitions = <<>> THEN [ok |-> TRUE, value |-> <<>>]
    ELSE LET tool == Head(tool_definitions)
             rest == FunctionDeclarations_Reversed(Tail(tool_definitions))
         IN IF Get(tool, "type", None) = "function"
            THEN IF "function" \in DOMAIN tool /\ "name" \in DOMAIN tool.function
                 THEN [ok |-> rest.ok,
                       value |-> rest.value \o
                                 <<[name |-> tool.function.name,
                                    description |-> Get(tool.function, "description", ""),
                                    parameters |-> Get(tool.function, "parameters", JsonEmptyObject)]>>]
                 ELSE [ok |-> FALSE, value |-> <<>>]
            ELSE rest

\* lines 61-72: ok = FALSE stands for the KeyError of tool["function"] or
\* func["name"]
RECURSIVE FunctionDeclarations(_)
FunctionDeclarations(tool_definitions) ==
    IF tool_definitions = <<>> THEN [ok |-> TRUE, value |-> <<>>]
    ELSE LET tool == Head(tool_definitions)
             rest == FunctionDeclarations(Tail(tool_definitions))
         IN IF Get(tool, "type", None) = "function"
            THEN IF "function" \in DOMAIN tool /\ "name" \in DOMAIN tool.function
                 THEN [ok |-> rest.ok,
                       value |-> <<[name |-> tool.function.name,
                                    description |-> Get(tool.function, "description", ""),
                                    parameters |-> Get(tool.function, "parameters", JsonEmptyObject)]>>
                                 \o rest.value]
                 ELSE [ok |-> FALSE, value |-> <<>>]
            ELSE rest

\* lines 50-74
_build_tools(tool_definitions) ==
    LET decls == FunctionDeclarations(tool_definitions)
    IN [ok |-> decls.ok, value |-> <<[functionDeclarations |-> decls.value]>>]

\* line 204: " ".join(texts)
RECURSIVE JoinWithSpace(_)
JoinWithSpace(texts) ==
    IF texts = <<>> THEN ""
    ELSE IF Len(texts) = 1 THEN texts[1]
    ELSE texts[1] \o " " \o JoinWithSpace(Tail(texts))

\* line 203: the text of every segment of a list content
RECURSIVE SegmentTexts(_)
SegmentTexts(items) ==
    IF items = <<>> THEN <<>>
    ELSE <<Get(Head(items), "text", "")>> \o SegmentTexts(Tail(items))

\* lines 188-205: None when no system message yields an instruction
RECURSIVE _get_system_instruction(_)
_get_system_instruction(msgs) ==
    IF msgs = <<>> THEN PyNone
    ELSE LET msg == Head(msgs)
             content == Get(msg, "content", PyStr(""))
         IN IF Get(msg, "role", None) = "system" /\ content.t = "str"
            THEN [t |-> "dict", v |-> [parts |-> <<[text |-> content.v]>>]]
            ELSE IF Get(msg, "role", None) = "system" /\ content.t = "list"
            THEN [t |-> "dict",
                  v |-> [parts |-> <<[text |-> JoinWithSpace(SegmentTexts(content.items))]>>]]
            ELSE _get_system_instruction(Tail(msgs))

\* lines 231-242: the request body
RequestBody(msgs, tool_definitions, pending, temp) ==
    LET base == [contents |-> _build_contents(msgs, pending),
                 tools |-> _build_tools(tool_definitions).value]
        system_instruction == _get_system_instruction(msgs)
        with_system == IF system_instruction.t # "none"
                       THEN DictSet(base, "systemInstruction", system_instruction.v)
                       ELSE base
    IN IF temp.t # "none"
       THEN DictSet(with_system, "generationConfig", [temperature |-> temp.v])
       ELSE with_system

-----------------------------------------------------------------------------
(* The SSE body: lines as the transport delivers them, and the chunks their *)
(* payloads parse to                                                        *)

Whitespace == {" ", "\n", "\r", "\t"}

\* str.strip()
RECURSIVE Strip(_)
Strip(s) ==
    IF s = "" THEN s
    ELSE IF SubSeq(s, 1, 1) \in Whitespace THEN Strip(SubSeq(s, 2, Len(s)))
    ELSE IF SubSeq(s, Len(s), Len(s)) \in Whitespace THEN Strip(SubSeq(s, 1, Len(s) - 1))
    ELSE s

\* str.startswith(prefix)
StartsWith(s, prefix) == Len(s) >= Len(prefix) /\ SubSeq(s, 1, Len(prefix)) = prefix

\* line[6:]
DropPrefix(s, n) == IF Len(s) <= n THEN "" ELSE SubSeq(s, n + 1, Len(s))

\* bytes that are not valid UTF-8: bytes.decode raises UnicodeDecodeError
InvalidUtf8 == "<0xff>"

JsonTextAB == "{\"candidates\": [{\"content\": {\"parts\": [{\"text\": \"ab\"}]}}]}"
JsonTextCUsage == "{\"candidates\": [{\"content\": {\"parts\": [{\"text\": \"c\"}]}}], \"usageMetadata\": {\"promptTokenCount\": 1, \"candidatesTokenCount\": 2, \"totalTokenCount\": 3}}"
JsonCallF == "{\"candidates\": [{\"content\": {\"parts\": [{\"functionCall\": {\"name\": \"f\", \"args\": {\"x\": 1}, \"thought_signature\": \"sigA\"}}]}}]}"
JsonTextThenCallGW == "{\"candidates\": [{\"content\": {\"parts\": [{\"text\": \"ab\"}, {\"functionCall\": {\"name\": \"g_w\"}}]}}]}"
JsonCallContentSig == "{\"candidates\": [{\"content\": {\"thought_signature\": \"sigB\", \"parts\": [{\"functionCall\": {\"name\": \"f\", \"args\": {}}}]}}]}"
JsonTextThenBadText == "{\"candidates\": [{\"content\": {\"parts\": [{\"text\": \"ab\"}, {\"text\": 5}]}}]}"
JsonUsageOnly == "{\"usageMetadata\": {\"promptTokenCount\": 4}}"
JsonNumber == "5"
JsonString == "\"x\""
JsonArray == "[1]"
JsonNull == "null"
JsonTwoCalls == "{\"candidates\": [{\"content\": {\"parts\": [{\"functionCall\": {\"name\": \"f_1\"}}, {\"functionCall\": {\"name\": \"f\"}}]}}]}"

ChunkAB == [candidates |-> <<[content |-> [parts |-> <<[text |-> PyStr("ab")]>>]]>>]
ChunkCUsage ==
    [candidates |-> <<[content |-> [parts |-> <<[text |-> PyStr("c")]>>]]>>,
     usageMetadata |-> [promptTokenCount |-> 1, candidatesTokenCount |-> 2,
                        totalTokenCount |-> 3]]
ChunkCallF ==
    [candidates |-> <<[content |-> [parts |->
        <<[functionCall |-> [name |-> "f", args |-> JsonObjectX,
                             thought_signature |-> "sigA"]]>>]]>>]
ChunkTextThenCallGW ==
    [candidates |-> <<[content |-> [parts |->
        <<[text |-> PyStr("ab")], [functionCall |-> [name |-> "g_w"]]>>]]>>]
ChunkCallContentSig ==
    [candidates |-> <<[content |-> [thought_signature |-> "sigB", parts |->
        <<[functionCall |-> [name |-> "f", args |-> JsonEmptyObject]]>>]]>>]
ChunkTextThenBadText ==
    [candidates |-> <<[content |-> [parts |->
        <<[text |-> PyStr("ab")], [text |-> PyNum(5)]>>]]>>]
ChunkUsageOnly == [usageMetadata |-> [promptTokenCount |-> 4]]
ChunkTwoCalls ==
    [candidates |-> <<[content |-> [parts |->
        <<[functionCall |-> [name |-> "f_1"]], [functionCall |-> [name |-> "f"]]>>]]>>]

\* json.loads of an SSE payload: ok = FALSE stands for json.JSONDecodeError
json_loads_chunk(data_str) ==
    CASE data_str = JsonTextAB -> [ok |-> TRUE, value |-> [t |-> "dict", v |-> ChunkAB]]
      [] data_str = JsonTextCUsage -> [ok |-> TRUE, value |-> [t |-> "dict", v |-> ChunkCUsage]]
      [] data_str = JsonCallF -> [ok |-> TRUE, value |-> [t |-> "dict", v |-> ChunkCallF]]
      [] data_str = JsonTextThenCallGW ->
            [ok |-> TRUE, value |-> [t |-> "dict", v |-> ChunkTextThenCallGW]]
      [] data_str = JsonCallContentSig ->
            [ok |-> TRUE, value |-> [t |-> "dict", v |-> ChunkCallContentSig]]
      [] data_str = JsonTextThenBadText ->
            [ok |-> TRUE, value |-> [t |-> "dict", v |-> ChunkTextThenBadText]]
      [] data_str = JsonUsageOnly -> [ok |-> TRUE, value |-> [t |-> "dict", v |-> ChunkUsageOnly]]
      [] data_str = JsonNumber -> [ok |-> TRUE, value |-> PyNum(5)]
      [] data_str = JsonString -> [ok |-> TRUE, value |-> PyStr("x")]
      [] data_str = JsonArray -> [ok |-> TRUE, value |-> PyList(<<PyNum(1)>>)]
      [] data_str = JsonNull -> [ok |-> TRUE, value |-> PyNone]
      [] data_str = JsonTwoCalls -> [ok |-> TRUE, value |-> [t |-> "dict", v |-> ChunkTwoCalls]]
      [] OTHER -> [ok |-> FALSE, value |-> PyNone]

\* type(value).__name__ of a parsed payload
PyTypeName(value) ==
    CASE value.t = "num" -> "int"
      [] value.t = "str" -> "str"
      [] value.t = "list" -> "list"
      [] value.t = "none" -> "NoneType"
      [] OTHER -> "dict"

\* line 285: chunk.get on a payload that is not a dict
NoGetMessage(value) == "'" \o PyTypeName(value) \o "' object has no attribute 'get'"

\* the lines a body is made of
BodyLines ==
    {"\n", ": ping\n", "event: message\r\n", "data: not json\n", InvalidUtf8,
     "data: " \o JsonNumber \o "\n"}
    \cup {"data: " \o j \o "\n" :
            j \in {JsonTextAB, JsonTextCUsage, JsonCallF, JsonTextThenCallGW,
                   JsonCallContentSig, JsonTextThenBadText, JsonUsageOnly,
                   JsonTwoCalls}}

-----------------------------------------------------------------------------
(* GeminiClient.generate_content_stream, gemini_client.py lines 207-348 *)

\* line 261: the length the body excerpt of an API error is cut to
ErrorExcerptLen == 500

\* lines 259-262
ApiErrorEvent(status, error_text) ==
    [type |-> "error",
     error |-> "API error " \o IntToStr(status) \o ": " \o Truncate(error_text, ErrorExcerptLen)]

\* lines 345-348
ExceptionEvent(message) == [type |-> "error", error |-> message]

\* faulty variant: the id does not count the calls of the turn
ToolCallId_NoOrdinal(func_name, ordinal) == func_name \o "_0"

\* line 304
ToolCallId(func_name, ordinal) == func_name \o "_" \o IntToStr(ordinal)

\* lines 300-316: the descriptor of a functionCall Part
ToolCallDescriptor(fc, ordinal) ==
    LET func_name == Get(fc, "name", "")
        thought_sig == Get(fc, "thought_signature", None)
        id == ToolCallId(func_name, ordinal)
        function == [name |-> func_name,
                     arguments |-> json_dumps(Get(fc, "args", JsonEmptyObject))]
    IN IF Truthy(thought_sig)
       THEN [id |-> id, type |-> "function", function |-> function,
             thought_signature |-> thought_sig]
       ELSE [id |-> id, type |-> "function", function |-> function]

\* lines 327-332
UsageInfo(usage) ==
    [prompt_tokens |-> Get(usage, "promptTokenCount", 0),
     completion_tokens |-> Get(usage, "candidatesTokenCount", 0),
     total_tokens |-> Get(usage, "totalTokenCount", 0)]

\* faulty variant: the finish reason no longer looks at the tool calls
FinishReason_AlwaysStop(tool_calls) == "stop"

\* line 340
FinishReason(tool_calls) == IF tool_calls # <<>> THEN "tool_calls" ELSE "stop"

\* lines 335-341
CompleteEvent(text, tool_calls, usage) ==
    [type |-> "complete",
     content |-> text,
     tool_calls |-> tool_calls,
     usage |-> usage,
     finish_reason |-> FinishReason(tool_calls)]

\* faulty variant: the delta replaces the accumulated text instead of extending it
AccumulateText_Overwrite(text_so_far, text) == text

\* line 292
AccumulateText(text_so_far, text) == text_so_far \o text

\* line 318
AccumulateToolCall(tool_calls, tool_call) == Append(tool_calls, tool_call)

\* faulty variant: the tool-call accumulator outlives the invocation
InitialToolCalls_Stale == accumulated_tool_calls

\* lines 265-267: the accumulators of a fresh invocation
InitialText == ""
InitialToolCalls == <<>>
InitialUsage == EmptyDict

\* lines 285-288: the candidates of a chunk and the parts of a candidate
Candidates(chunk) == Get(chunk, "candidates", <<>>)
PartsOf(candidate) == Get(Get(candidate, "content", EmptyDict), "parts", <<>>)

NoCursor == [chunk |-> EmptyDict, ci |-> 0, pi |-> 0, phase |-> "none"]

\* lines 285-288: the first Part at or after (ci, pi) in iteration order;
\* ci = 0 when the loops are over
RECURSIVE PartFrom(_, _, _)
PartFrom(chunk, ci, pi) ==
    IF ci > Len(Candidates(chunk)) THEN [ci |-> 0, pi |-> 0]
    ELSE IF pi <= Len(PartsOf(Candidates(chunk)[ci])) THEN [ci |-> ci, pi |-> pi]
    ELSE PartFrom(chunk, ci + 1, 1)

CurrentContent == Get(Candidates(cursor.chunk)[cursor.ci], "content", EmptyDict)
CurrentPart == PartsOf(Candidates(cursor.chunk)[cursor.ci])[cursor.pi]

\* lines 343-348: an exception leaves the "async with" blocks, which close the
\* response and the session, and the handler yields one error event
Raise(message) ==
    /\ events' = Append(events, ExceptionEvent(message))
    /\ session' = IF session = "open" THEN "closed" ELSE session
    /\ pc' = "yielded_error"
    /\ cursor' = NoCursor

\* lines 223-251: the request is built and posted
Start ==
    /\ pc = "start"
    /\ IF _build_tools(tools).ok
       THEN /\ request_body' = RequestBody(messages, tools, LocalPending(pending_arg),
                                           temperature)
            /\ session' = "open"
            /\ pc' = "await_post"
            /\ UNCHANGED <<events, cursor>>
       ELSE /\ Raise("'function'")
            /\ UNCHANGED request_body
    /\ pending_arg' = CallerMapAfter(pending_arg,
                                     PendingAfter(messages, LocalPending(pending_arg)))
    /\ UNCHANGED <<script, tools, temperature, line_idx, accumulated_text,
                   accumulated_tool_calls, usage_info, run, prev_events, build_vars,
                   consumer, consumed, result, invocations, model, model_checks, setup_vars>>

\* lines 251-267: session.post returns the response, or raises
PostReturns ==
    /\ pc = "await_post"
    /\ IF ~script.connect_ok
       THEN /\ Raise("Cannot connect to host")
            /\ UNCHANGED <<accumulated_text, accumulated_tool_calls, usage_info, line_idx>>
       ELSE IF script.status # 200
       THEN /\ pc' = "await_text"
            /\ UNCHANGED <<events, session, cursor, accumulated_text,
                           accumulated_tool_calls, usage_info, line_idx>>
       ELSE /\ accumulated_text' = InitialText
            /\ accumulated_tool_calls' = InitialToolCalls
            /\ usage_info' = InitialUsage
            /\ line_idx' = 0
            /\ pc' = "await_line"
            /\ UNCHANGED <<events, session, cursor>>
    /\ UNCHANGED <<script, tools, temperature, request_body, run, prev_events, build_vars,
                   caller_vars>>

\* lines 257-262: response.text() returns the body and the API error is
\* yielded, or the read raises
TextReturns ==
    /\ pc = "await_text"
    /\ IF script.body_ok
       THEN /\ events' = Append(events, ApiErrorEvent(script.status, script.body))
            /\ pc' = "yielded_api_error"
            /\ UNCHANGED <<session, cursor>>
       ELSE Raise("Response payload is not completed")
    /\ UNCHANGED <<script, tools, temperature, request_body, line_idx, accumulated_text,
                   accumulated_tool_calls, usage_info, run, prev_events, build_vars,
                   caller_vars>>

\* faulty variant: no "return" after the API error, the body is parsed as a stream
ResumeAfterApiError_NoReturn ==
    /\ pc = "yielded_api_error"
    /\ accumulated_text' = InitialText
    /\ accumulated_tool_calls' = InitialToolCalls
    /\ usage_info' = InitialUsage
    /\ line_idx' = 0
    /\ pc' = "await_line"
    /\ UNCHANGED <<script, tools, temperature, request_body, session, cursor, events, run,
                   prev_events, build_vars, caller_vars>>

\* line 263: the caller asks for the next event after the API error
ResumeAfterApiError ==
    /\ pc = "yielded_api_error"
    /\ session' = "closed"
    /\ pc' = "done"
    /\ UNCHANGED <<script, tools, temperature, request_body, line_idx, cursor,
                   accumulated_text, accumulated_tool_calls, usage_info, events, run,
                   prev_events, build_vars, caller_vars>>

\* faulty variant: a payload that is not JSON ends the stream with an error
ReadLine_DecodeErrorRaises ==
    /\ pc = "await_line"
    /\ line_idx < Len(script.lines)
    /\ line_idx' = line_idx + 1
    /\ LET raw == script.lines[line_idx + 1]
           line == Strip(raw)
           parsed == json_loads_chunk(DropPrefix(line, 6))
       IN IF raw = InvalidUtf8
          THEN Raise("'utf-8' codec can't decode byte 0xff in position 0: invalid start byte")
          ELSE IF line = "" \/ StartsWith(line, ":")
          THEN UNCHANGED <<pc, cursor, events, session>>
          ELSE IF ~StartsWith(line, "data: ")
          THEN UNCHANGED <<pc, cursor, events, session>>
          ELSE IF ~parsed.ok
          THEN Raise("Expecting value: line 1 column 1 (char 0)")
          ELSE IF parsed.value.t # "dict"
          THEN Raise(NoGetMessage(parsed.value))
          ELSE LET chunk == parsed.value.v
                   pos == PartFrom(chunk, 1, 1)
               IN /\ cursor' = [chunk |-> chunk, ci |-> pos.ci, pi |-> pos.pi,
                                phase |-> IF pos.ci = 0 THEN "usage" ELSE "text"]
                  /\ pc' = "in_chunk"
                  /\ UNCHANGED <<events, session>>
    /\ UNCHANGED <<script, tools, temperature, request_body, accumulated_text,
                   accumulated_tool_calls, usage_info, run, prev_events, build_vars,
                   caller_vars>>

\* faulty variant: a payload that is not an object is skipped like a line
\* that is not JSON
ReadLine_SkipNonObject ==
    /\ pc = "await_line"
    /\ line_idx < Len(script.lines)
    /\ line_idx' = line_idx + 1
    /\ LET raw == script.lines[line_idx + 1]
           line == Strip(raw)
           parsed == json_loads_chunk(DropPrefix(line, 6))
       IN IF raw = InvalidUtf8
          THEN Raise("'utf-8' codec can't decode byte 0xff in position 0: invalid start byte")
          ELSE IF line = "" \/ StartsWith(line, ":")
          THEN UNCHANGED <<pc, cursor, events, session>>
          ELSE IF ~StartsWith(line, "data: ")
          THEN UNCHANGED <<pc, cursor, events, session>>
          ELSE IF ~parsed.ok
          THEN UNCHANGED <<pc, cursor, events, session>>
          ELSE IF parsed.value.t # "dict"
          THEN UNCHANGED <<pc, cursor, events, session>>
          ELSE LET chunk == parsed.value.v
                   pos == PartFrom(chunk, 1, 1)
               IN /\ cursor' = [chunk |-> chunk, ci |-> pos.ci, pi |-> pos.pi,
                                phase |-> IF pos.ci = 0 THEN "usage" ELSE "text"]
                  /\ pc' = "in_chunk"
                  /\ UNCHANGED <<events, session>>
    /\ UNCHANGED <<script, tools, temperature, request_body, accumulated_text,
                   accumulated_tool_calls, usage_info, run, prev_events, build_vars,
                   caller_vars>>

\* lines 270-288: the next line of the body arrives
ReadLine ==
    /\ pc = "await_line"
    /\ line_idx < Len(script.lines)
    /\ line_idx' = line_idx + 1
    /\ LET raw == script.lines[line_idx + 1]
           line == Strip(raw)
           parsed == json_loads_chunk(DropPrefix(line, 6))
       IN IF raw = InvalidUtf8
          THEN Raise("'utf-8' codec can't decode byte 0xff in position 0: invalid start byte")
          ELSE IF line = "" \/ StartsWith(line, ":")
          THEN UNCHANGED <<pc, cursor, events, session>>
          ELSE IF ~StartsWith(line, "data: ")
          THEN UNCHANGED <<pc, cursor, events, session>>
          ELSE IF ~parsed.ok
          THEN UNCHANGED <<pc, cursor, events, session>>
          ELSE IF parsed.value.t # "dict"
          THEN Raise(NoGetMessage(parsed.value))
          ELSE LET chunk == parsed.value.v
                   pos == PartFrom(chunk, 1, 1)
               IN /\ cursor' = [chunk |-> chunk, ci |-> pos.ci, pi |-> pos.pi,
                                phase |-> IF pos.ci = 0 THEN "usage" ELSE "text"]
                  /\ pc' = "in_chunk"
                  /\ UNCHANGED <<events, session>>
    /\ UNCHANGED <<script, tools, temperature, request_body, accumulated_text,
                   accumulated_tool_calls, usage_info, run, prev_events, build_vars,
                   caller_vars>>

\* lines 289-296: the text of the current Part
HandleText ==
    /\ pc = "in_chunk"
    /\ cursor.phase = "text"
    /\ IF "text" \in DOMAIN CurrentPart
       THEN IF CurrentPart.text.t = "str"
            THEN /\ accumulated_text' = AccumulateText(accumulated_text, CurrentPart.text.v)
                 /\ events' = Append(events, [type |-> "content",
                                              content |-> CurrentPart.text.v])
                 /\ cursor' = [cursor EXCEPT !.phase = "call"]
                 /\ UNCHANGED <<pc, session>>
            ELSE /\ Raise("can only concatenate str (not \"int\") to str")
                 /\ UNCHANGED accumulated_text
       ELSE /\ cursor' = [cursor EXCEPT !.phase = "call"]
            /\ UNCHANGED <<pc, session, events, accumulated_text>>
    /\ UNCHANGED <<script, tools, temperature, request_body, line_idx,
                   accumulated_tool_calls, usage_info, run, prev_events, build_vars,
                   caller_vars>>

\* lines 298-323: the functionCall of the current Part, then on to the next Part
HandleFunctionCall ==
    /\ pc = "in_chunk"
    /\ cursor.phase = "call"
    /\ LET pos == PartFrom(cursor.chunk, cursor.ci, cursor.pi + 1)
       IN cursor' = [cursor EXCEPT !.ci = pos.ci, !.pi = pos.pi,
                                   !.phase = IF pos.ci = 0 THEN "usage" ELSE "text"]
    /\ IF "functionCall" \in DOMAIN CurrentPart
       THEN LET tool_call == ToolCallDescriptor(CurrentPart.functionCall,
                                                Len(accumulated_tool_calls))
            IN /\ accumulated_tool_calls' = AccumulateToolCall(accumulated_tool_calls, tool_call)
               /\ events' = Append(events, [type |-> "tool_call", tool_call |-> tool_call])
       ELSE UNCHANGED <<accumulated_tool_calls, events>>
    /\ UNCHANGED <<script, tools, temperature, request_body, pc, session, line_idx,
                   accumulated_text, usage_info, run, prev_events, build_vars,
                   caller_vars>>

\* faulty variant: usage metadata seen first is kept, later metadata is ignored
HandleUsage_FirstWins ==
    /\ pc = "in_chunk"
    /\ cursor.phase = "usage"
    /\ usage_info' = IF "usageMetadata" \in DOMAIN cursor.chunk /\ usage_info = InitialUsage
                     THEN UsageInfo(cursor.chunk.usageMetadata)
                     ELSE usage_info
    /\ cursor' = NoCursor
    /\ pc' = "await_line"
    /\ UNCHANGED <<script, tools, temperature, request_body, session, line_idx,
                   accumulated_text, accumulated_tool_calls, events, run, prev_events,
                   build_vars, caller_vars>>

\* lines 325-332: the usage metadata of the chunk, then back to the read
HandleUsage ==
    /\ pc = "in_chunk"
    /\ cursor.phase = "usage"
    /\ usage_info' = IF "usageMetadata" \in DOMAIN cursor.chunk
                     THEN UsageInfo(cursor.chunk.usageMetadata)
                     ELSE usage_info
    /\ cursor' = NoCursor
    /\ pc' = "await_line"
    /\ UNCHANGED <<script, tools, temperature, request_body, session, line_idx,
                   accumulated_text, accumulated_tool_calls, events, run, prev_events,
                   build_vars, caller_vars>>

\* faulty variant: the generator ends at the end of the body without a complete event
EndOfStream_NoComplete ==
    /\ pc = "await_line"
    /\ line_idx = Len(script.lines)
    /\ script.end = "eof"
    /\ pc' = "yielded_complete"
    /\ UNCHANGED <<script, tools, temperature, request_body, session, line_idx, cursor,
                   accumulated_text, accumulated_tool_calls, usage_info, events, run,
                   prev_events, build_vars, caller_vars>>

\* lines 334-341: the body ends and the complete event is yielded
EndOfStream ==
    /\ pc = "await_line"
    /\ line_idx = Len(script.lines)
    /\ script.end = "eof"
    /\ events' = Append(events, CompleteEvent(accumulated_text, accumulated_tool_calls,
                                              usage_info))
    /\ pc' = "yielded_complete"
    /\ UNCHANGED <<script, tools, temperature, request_body, session, line_idx, cursor,
                   accumulated_text, accumulated_tool_calls, usage_info, run, prev_events,
                   build_vars, caller_vars>>

\* line 270: the read of the body raises (the connection is lost)
ReadFails ==
    /\ pc = "await_line"
    /\ line_idx = Len(script.lines)
    /\ script.end = "reset"
    /\ Raise("Connection reset by peer")
    /\ UNCHANGED <<script, tools, temperature, request_body, line_idx, accumulated_text,
                   accumulated_tool_calls, usage_info, run, prev_events, build_vars,
                   caller_vars>>

\* line 341 to the end: the caller asks for the next event after the complete
\* event; the "async with" blocks close the response and the session
ResumeAfterComplete ==
    /\ pc = "yielded_complete"
    /\ session' = "closed"
    /\ pc' = "done"
    /\ UNCHANGED <<script, tools, temperature, request_body, line_idx, cursor,
                   accumulated_text, accumulated_tool_calls, usage_info, events, run,
                   prev_events, build_vars, caller_vars>>

\* line 348 to the end: the caller asks for the next event after the error
\* event of the handler
ResumeAfterError ==
    /\ pc = "yielded_error"
    /\ pc' = "done"
    /\ UNCHANGED <<script, tools, temperature, request_body, session, line_idx, cursor,
                   accumulated_text, accumulated_tool_calls, usage_info, events, run,
                   prev_events, build_vars, caller_vars>>

\* a second invocation on the same client with the same arguments, against a
\* transport that behaves the same way (lines 223-267 run again from the top)
Replay ==
    /\ pc = "done"
    /\ run < MaxRuns
    /\ run' = run + 1
    /\ prev_events' = events
    /\ events' = <<>>
    /\ session' = "none"
    /\ request_body' = EmptyDict
    /\ pc' = "start"
    /\ UNCHANGED <<script, tools, temperature, line_idx, cursor, accumulated_text,
                   accumulated_tool_calls, usage_info, build_vars, caller_vars>>

-----------------------------------------------------------------------------
(* generate_content, gemini_client.py lines 350-384: the loop that drains  *)
(* the event stream into one result                                        *)

\* the generator runs only while its consumer waits for the next event
Running == consumer = "iterating" /\ consumed = Len(events)

\* faulty variant: the complete event changes nothing in the result
ResultAfter_IgnoreComplete(res, event) ==
    CASE event.type = "content" ->
            [res EXCEPT !.content = res.content \o Get(event, "content", "")]
      [] event.type = "tool_call" ->
            [res EXCEPT !.tool_calls = Append(res.tool_calls, event.tool_call)]
      [] OTHER -> res

\* lines 374-380: the result after one event
ResultAfter(res, event) ==
    CASE event.type = "content" ->
            [res EXCEPT !.content = res.content \o Get(event, "content", "")]
      [] event.type = "tool_call" ->
            [res EXCEPT !.tool_calls = Append(res.tool_calls, event.tool_call)]
      [] event.type = "complete" ->
            [res EXCEPT !.usage = Get(event, "usage", EmptyDict),
                        !.finish_reason = Get(event, "finish_reason", "stop")]
      [] OTHER -> res

\* faulty variant: an error event is skipped and the loop goes on
WrapperHandleEvent_SwallowError ==
    /\ consumer = "iterating"
    /\ consumed < Len(events)
    /\ consumed' = consumed + 1
    /\ result' = ResultAfter(result, events[consumed + 1])
    /\ UNCHANGED <<consumer, pending_arg, invocations, model, model_checks, setup_vars, build_vars, stream_vars>>

\* lines 373-382: the body of "async for event in ..." for the event the
\* generator has just yielded; an error event raises
WrapperHandleEvent ==
    /\ consumer = "iterating"
    /\ consumed < Len(events)
    /\ consumed' = consumed + 1
    /\ IF events[consumed + 1].type = "error"
       THEN consumer' = "raised" /\ UNCHANGED result
       ELSE result' = ResultAfter(result, events[consumed + 1]) /\ UNCHANGED consumer
    /\ UNCHANGED <<pending_arg, invocations, model, model_checks, setup_vars, build_vars, stream_vars>>

\* line 384: the generator is exhausted and the result is returned
WrapperReturn ==
    /\ Running
    /\ pc = "done"
    /\ consumer' = "returned"
    /\ UNCHANGED <<pending_arg, consumed, result, invocations, model, model_checks, setup_vars, build_vars, stream_vars>>

NextWrapper ==
    \/ Running /\ Start
    \/ Running /\ PostReturns
    \/ Running /\ TextReturns
    \/ Running /\ ReadLine
    \/ Running /\ HandleText
    \/ Running /\ HandleFunctionCall
    \/ Running /\ HandleUsage
    \/ Running /\ EndOfStream
    \/ Running /\ ReadFails
    \/ Running /\ ResumeAfterComplete
    \/ WrapperHandleEvent
    \/ WrapperReturn

-----------------------------------------------------------------------------
(* A caller that iterates the event stream itself and may stop before the  *)
(* terminal event                                                          *)

\* "async for event in ...": the caller receives the event the generator has
\* yielded and asks for the next one
TakeEvent ==
    /\ consumer = "iterating"
    /\ consumed < Len(events)
    /\ consumed' = consumed + 1
    /\ UNCHANGED <<consumer, pending_arg, result, invocations, model, model_checks, setup_vars, build_vars, stream_vars>>

\* the caller receives a content or tool_call event and leaves the loop: the
\* generator stays suspended at its yield (lines 293, 320)
StopIterating ==
    /\ consumer = "iterating"
    /\ consumed < Len(events)
    /\ events[consumed + 1].type \in {"content", "tool_call"}
    /\ consumed' = consumed + 1
    /\ consumer' = "stopped"
    /\ UNCHANGED <<pending_arg, result, invocations, model, model_checks, setup_vars, build_vars, stream_vars>>

\* faulty variant: the generator is closed but the response and the session
\* are not (no "async with" around them)
CloseGenerator_LeaksSession ==
    /\ consumer = "stopped"
    /\ pc # "closed"
    /\ pc' = "closed"
    /\ cursor' = NoCursor
    /\ UNCHANGED <<script, tools, temperature, request_body, session, line_idx,
                   accumulated_text, accumulated_tool_calls, usage_info, events, run,
                   prev_events, build_vars, caller_vars>>

\* the abandoned generator is closed (aclose(), which the event loop also
\* runs when the generator object is dropped): GeneratorExit is raised at the
\* yield, it is not an Exception, so lines 343-348 do not run, and the two
\* "async with" blocks of lines 250-255 close the response and the session
CloseGenerator ==
    /\ consumer = "stopped"
    /\ pc # "closed"
    /\ pc' = "closed"
    /\ session' = "closed"
    /\ cursor' = NoCursor
    /\ UNCHANGED <<script, tools, temperature, request_body, line_idx,
                   accumulated_text, accumulated_tool_calls, usage_info, events, run,
                   prev_events, build_vars, caller_vars>>

NextCancel ==
    \/ Running /\ Start
    \/ Running /\ PostReturns
    \/ Running /\ TextReturns
    \/ Running /\ ResumeAfterApiError
    \/ Running /\ ReadLine
    \/ Running /\ HandleText
    \/ Running /\ HandleFunctionCall
    \/ Running /\ HandleUsage
    \/ Running /\ EndOfStream
    \/ Running /\ ReadFails
    \/ Running /\ ResumeAfterComplete
    \/ Running /\ ResumeAfterError
    \/ TakeEvent
    \/ StopIterating
    \/ CloseGenerator

-----------------------------------------------------------------------------
(* Concurrent invocations of generate_content_stream on one client: the    *)
(* locals of an invocation as a record, and one step of it from one read   *)
(* of the transport to the next (lines 223-348)                            *)

\* lines 207-223: an invocation that has not run yet
NewInvocation(msgs, tool_definitions, transport) ==
    [messages |-> msgs, tools |-> tool_definitions, script |-> transport,
     request_body |-> EmptyDict, pc |-> "start", session |-> "none", line_idx |-> 0,
     accumulated_text |-> "", accumulated_tool_calls |-> <<>>, usage_info |-> EmptyDict,
     events |-> <<>>]

\* lines 343-348: an exception ends the invocation with one error event
Fail(st, message) ==
    [st EXCEPT !.events = Append(@, ExceptionEvent(message)),
               !.session = IF @ = "open" THEN "closed" ELSE @,
               !.pc = "done"]

\* lines 285-288: the Parts of a chunk in iteration order
RECURSIVE PartsOfCandidates(_)
PartsOfCandidates(candidates) ==
    IF candidates = <<>> THEN <<>>
    ELSE PartsOf(Head(candidates)) \o PartsOfCandidates(Tail(candidates))

\* faulty variant: the ordinal counts the tool calls of every invocation of
\* the client
Ordinal_ClientWide(st, other) ==
    Len(st.accumulated_tool_calls) + Len(other.accumulated_tool_calls)

\* line 304: len(accumulated_tool_calls), a local of the invocation
Ordinal(st, other) == Len(st.accumulated_tool_calls)

\* lines 289-323: one Part
HandlePart(st, other, part) ==
    LET after_text ==
            IF "text" \in DOMAIN part
            THEN IF part.text.t = "str"
                 THEN [st EXCEPT !.accumulated_text = AccumulateText(@, part.text.v),
                                 !.events = Append(@, [type |-> "content",
                                                       content |-> part.text.v])]
                 ELSE Fail(st, "can only concatenate str (not \"int\") to str")
            ELSE st
    IN IF after_text.pc = "done" \/ "functionCall" \notin DOMAIN part
       THEN after_text
       ELSE LET tool_call == ToolCallDescriptor(part.functionCall,
                                                Ordinal(after_text, other))
            IN [after_text EXCEPT
                   !.accumulated_tool_calls = AccumulateToolCall(@, tool_call),
                   !.events = Append(@, [type |-> "tool_call", tool_call |-> tool_call])]

RECURSIVE HandleParts(_, _, _)
HandleParts(st, other, parts) ==
    IF parts = <<>> \/ st.pc = "done" THEN st
    ELSE HandleParts(HandlePart(st, other, Head(parts)), other, Tail(parts))

\* lines 284-332: one chunk
HandleChunk(st, other, chunk) ==
    LET after == HandleParts(st, other, PartsOfCandidates(Candidates(chunk)))
    IN IF after.pc # "done" /\ "usageMetadata" \in DOMAIN chunk
       THEN [after EXCEPT !.usage_info = UsageInfo(chunk.usageMetadata)]
       ELSE after

\* lines 270-332: one line of the body
HandleLine(st, other, raw) ==
    LET line == Strip(raw)
        parsed == json_loads_chunk(DropPrefix(line, 6))
        read == [st EXCEPT !.line_idx = @ + 1]
    IN IF raw = InvalidUtf8
       THEN Fail(read, "'utf-8' codec can't decode byte 0xff in position 0: invalid start byte")
       ELSE IF line = "" \/ StartsWith(line, ":") \/ ~StartsWith(line, "data: ") \/ ~parsed.ok
       THEN read
       ELSE IF parsed.value.t # "dict"
       THEN Fail(read, NoGetMessage(parsed.value))
       ELSE HandleChunk(read, other, parsed.value.v)

\* lines 223-348: the invocation runs from where it is suspended to its next
\* read of the transport, or to its end; temp is self.temperature
Advance(st, other, temp) ==
    CASE st.pc = "start" ->
            IF _build_tools(st.tools).ok
            THEN [st EXCEPT !.request_body = RequestBody(st.messages, st.tools, EmptyDict, temp),
                            !.session = "open",
                            !.pc = "await_post"]
            ELSE Fail(st, "'function'")
      [] st.pc = "await_post" ->
            IF ~st.script.connect_ok THEN Fail(st, "Cannot connect to host")
            ELSE IF st.script.status # 200 THEN [st EXCEPT !.pc = "await_text"]
            ELSE [st EXCEPT !.pc = "await_line"]
      [] st.pc = "await_text" ->
            IF st.script.body_ok
            THEN [st EXCEPT !.events = Append(@, ApiErrorEvent(st.script.status,
                                                               st.script.body)),
                            !.session = "closed",
                            !.pc = "done"]
            ELSE Fail(st, "Response payload is not completed")
      [] st.pc = "await_line" ->
            IF st.line_idx < Len(st.script.lines)
            THEN HandleLine(st, other, st.script.lines[st.line_idx + 1])
            ELSE IF st.script.end = "eof"
            THEN [st EXCEPT !.events = Append(@, CompleteEvent(st.accumulated_text,
                                                               st.accumulated_tool_calls,
                                                               st.usage_info)),
                            !.session = "closed",
                            !.pc = "done"]
            ELSE Fail(st, "Connection reset by peer")
      [] OTHER -> st

\* the event loop resumes one of the invocations
AdvanceInvocation ==
    /\ \E i \in DOMAIN invocations :
          /\ invocations[i].pc # "done"
          /\ invocations' =
                [invocations EXCEPT ![i] = Advance(@, invocations[3 - i], temperature)]
    /\ UNCHANGED <<build_vars, stream_vars, pending_arg, consumer, consumed, result, model, model_checks, setup_vars>>

-----------------------------------------------------------------------------
(* The model-name predicates is_gemini_model and is_gemini_3_model, which  *)
(* a caller applies to a model name to choose the client.                  *)

\* no caller has asked about a model name; the client's default model
NoModelAsked ==
    /\ model = "gemini-3-flash-preview"
    /\ model_checks = EmptyDict

\* model.startswith("gemini-")
is_gemini_model(name) == StartsWith(name, "gemini-")

gemini_3_prefixes == <<"gemini-3", "gemini-4", "gemini-5">>

\* any(model.startswith(prefix) for prefix in gemini_3_prefixes)
is_gemini_3_model(name) ==
    \E i \in 1..Len(gemini_3_prefixes) : StartsWith(name, gemini_3_prefixes[i])

\* a caller asks is_gemini_model about the model name
CallIsGeminiModel ==
    /\ "is_gemini_model" \notin DOMAIN model_checks
    /\ model_checks' = DictSet(model_checks, "is_gemini_model", is_gemini_model(model))
    /\ UNCHANGED <<build_vars, stream_vars, pending_arg, consumer, consumed, result,
                   invocations, model, setup_vars>>

\* a caller asks is_gemini_3_model about the model name
CallIsGemini3Model ==
    /\ "is_gemini_3_model" \notin DOMAIN model_checks
    /\ model_checks' = DictSet(model_checks, "is_gemini_3_model", is_gemini_3_model(model))
    /\ UNCHANGED <<build_vars, stream_vars, pending_arg, consumer, consumed, result,
                   invocations, model, setup_vars>>

-----------------------------------------------------------------------------
(* The integration's setup: aiassistant/const.py and the state before any  *)
(* setup function has been called                                          *)

PROVIDER_OPENAI == "openai"
PROVIDER_GEMINI == "gemini"
PROVIDER_ANTHROPIC == "anthropic"
PROVIDER_OPENROUTER == "openrouter"
PROVIDER_OLLAMA == "ollama"
PROVIDER_CUSTOM == "custom"
DEFAULT_PROVIDER == PROVIDER_OPENAI

PROVIDER_URLS ==
    [openai |-> "https://api.openai.com/v1",
     gemini |-> "https://generativelanguage.googleapis.com/v1beta/openai/",
     anthropic |-> "https://api.anthropic.com/v1",
     openrouter |-> "https://openrouter.ai/api/v1",
     ollama |-> "http://localhost:11434/v1",
     custom |-> ""]

\* PROVIDER_MODELS[PROVIDER_GEMINI]
GEMINI_MODELS ==
    <<"gemini-3-flash-preview", "gemini-2.5-flash", "gemini-2.5-pro-preview-05-06",
      "gemini-2.0-flash", "gemini-1.5-pro", "gemini-1.5-flash">>

\* an environment variable that is not set
Unset == [t |-> "unset"]

NoTransport == [kind |-> "none"]

\* fetch_models_from_provider has not been called
NoFetch ==
    [provider |-> DEFAULT_PROVIDER, api_key |-> "", api_url |-> None,
     transport |-> NoTransport, pc |-> "idle", requests |-> <<>>, result |-> <<>>]

\* ConfigFlow.__init__
NewFlow ==
    [_provider |-> None, _api_key |-> None, _api_url |-> None, _fetched_models |-> <<>>,
     _data |-> EmptyDict]

NoSetup ==
    /\ fetch = NoFetch
    /\ flow = NewFlow
    /\ flow_result = [type |-> "none"]
    /\ entries = <<>>
    /\ os_environ = [OPENAI_API_KEY |-> Unset, OPENAI_API_BASE |-> Unset]
    /\ validation = [pc |-> "idle"]

-----------------------------------------------------------------------------
(* fetch_models_from_provider, aiassistant/config_flow.py lines 44-131 *)

\* s.rstrip("/")
RECURSIVE RStripSlash(_)
RStripSlash(s) ==
    IF s # "" /\ SubSeq(s, Len(s), Len(s)) = "/"
    THEN RStripSlash(SubSeq(s, 1, Len(s) - 1))
    ELSE s

\* s.replace(old, new), old not empty
RECURSIVE Replace(_, _, _)
Replace(s, old, new) ==
    IF s = "" THEN ""
    ELSE IF StartsWith(s, old)
    THEN new \o Replace(SubSeq(s, Len(old) + 1, Len(s)), old, new)
    ELSE SubSeq(s, 1, 1) \o Replace(SubSeq(s, 2, Len(s)), old, new)

\* the model ids a provider may list, in the order of Python's str comparison
ModelIds == <<"a", "b", "c">>

IdRank(id) == CHOOSE i \in 1..Len(ModelIds) : ModelIds[i] = id

\* list.sort() of a list of ids
RECURSIVE SortIds(_)
SortIds(ids) ==
    IF ids = <<>> THEN <<>>
    ELSE LET least == CHOOSE i \in 1..Len(ids) :
                          \A k \in 1..Len(ids) :
                              \/ IdRank(ids[i]) < IdRank(ids[k])
                              \/ (IdRank(ids[i]) = IdRank(ids[k]) /\ i <= k)
         IN <<ids[least]>> \o SortIds(SubSeq(ids, 1, least - 1)
                                        \o SubSeq(ids, least + 1, Len(ids)))

\* lines 111, 114, 117: [m.get(key, "") for m in data.get(list_key, [])];
\* an entry that is not a dict has no get
RECURSIVE NamesOf(_, _)
NamesOf(items, key) ==
    IF items = <<>> THEN [ok |-> TRUE, names |-> <<>>]
    ELSE IF Head(items).t # "dict" THEN [ok |-> FALSE, names |-> <<>>]
    ELSE LET rest == NamesOf(Tail(items), key)
         IN [ok |-> rest.ok, names |-> <<Get(Head(items).v, key, "")>> \o rest.names]

\* line 120: [m for m in models if m]
RECURSIVE NonEmpty(_)
NonEmpty(names) ==
    IF names = <<>> THEN <<>>
    ELSE IF Head(names) = "" THEN NonEmpty(Tail(names))
    ELSE <<Head(names)>> \o NonEmpty(Tail(names))

Returned(models, requests) == [raised |-> "", result |-> models, requests |-> requests]
Raised(exception, requests) == [raised |-> exception, result |-> <<>>, requests |-> requests]

\* lines 100-126: the answer of the provider is read
ReadModels(provider, transport, requests) ==
    IF transport.kind = "client_error" THEN Raised("ClientError", requests)
    ELSE IF transport.kind = "timeout" THEN Raised("TimeoutError", requests)
    ELSE IF transport.status # 200 THEN Returned(<<>>, requests)
    ELSE IF transport.body.t = "invalid" THEN Raised("JSONDecodeError", requests)
    ELSE IF transport.body.t # "dict" THEN Raised("AttributeError", requests)
    ELSE LET list_key == IF provider = PROVIDER_OLLAMA THEN "models" ELSE "data"
             key == IF provider = PROVIDER_OLLAMA THEN "name" ELSE "id"
             names == NamesOf(Get(transport.body.v, list_key, <<>>), key)
         IN IF names.ok THEN Returned(SortIds(NonEmpty(names.names)), requests)
            ELSE Raised("AttributeError", requests)

\* lines 64-96: the URL of the request, or the value returned without one
TryBody(provider, base_url, transport) ==
    IF provider \in {PROVIDER_OPENAI, PROVIDER_ANTHROPIC, PROVIDER_OPENROUTER}
    THEN ReadModels(provider, transport, <<base_url \o "/models">>)
    ELSE IF provider = PROVIDER_OLLAMA
    THEN ReadModels(provider, transport, <<Replace(base_url, "/v1", "/api/tags")>>)
    ELSE IF provider = PROVIDER_GEMINI THEN Returned(GEMINI_MODELS, <<>>)
    ELSE Returned(<<>>, <<>>)

\* faulty variant: only aiohttp.ClientError is caught
Handled_OnlyClientError(attempt) ==
    IF attempt.raised = "ClientError" THEN Returned(<<>>, attempt.requests) ELSE attempt

\* lines 126-131: "except aiohttp.ClientError" and "except Exception"
Handled(attempt) ==
    IF attempt.raised \in {"ClientError", "TimeoutError", "JSONDecodeError",
                           "AttributeError"}
    THEN Returned(<<>>, attempt.requests)
    ELSE attempt

\* lines 44-131
fetch_models_from_provider(provider, api_key, api_url, transport) ==
    IF ~Truthy(api_key) /\ provider # PROVIDER_OLLAMA THEN Returned(<<>>, <<>>)
    ELSE LET base_url == IF Truthy(api_url) THEN api_url
                         ELSE Get(PROVIDER_URLS, provider, "")
         IN IF base_url = "" THEN Returned(<<>>, <<>>)
            ELSE Handled(TryBody(provider, RStripSlash(base_url), transport))

\* a caller awaits fetch_models_from_provider
CallFetchModels ==
    /\ fetch.pc = "idle"
    /\ LET outcome == fetch_models_from_provider(fetch.provider, fetch.api_key,
                                                 fetch.api_url, fetch.transport)
       IN fetch' = [fetch EXCEPT !.pc = IF outcome.raised = "" THEN "returned" ELSE "raised",
                                 !.requests = outcome.requests,
                                 !.result = outcome.result]
    /\ UNCHANGED <<build_vars, stream_vars, pending_arg, consumer, consumed, result,
                   invocations, model, model_checks, flow, flow_result, entries,
                   os_environ, validation>>

-----------------------------------------------------------------------------
(* validate_input and ConfigFlow of aiassistant/config_flow.py *)

\* dict.update
DictUpdate(d, other) ==
    [k \in (DOMAIN d) \cup (DOMAIN other) |-> IF k \in DOMAIN other THEN other[k] ELSE d[k]]

\* lines 134-169: "ok" when validate_input returns, else the exception it
\* raises; openai_ok: the openai package is imported and the client is built
validate_input(data, openai_ok) ==
    LET provider == Get(data, "provider", DEFAULT_PROVIDER)
    IN IF ~Truthy(Get(data, "api_key", None)) /\ provider # PROVIDER_OLLAMA
       THEN "ValueError"
       ELSE IF ~openai_ok THEN "ValueError"
       ELSE "ok"

ShowForm(step_id, errors) == [type |-> "form", step_id |-> step_id, errors |-> errors]

\* the flow manager ends a flow that created an entry or aborted
FlowOpen == flow_result.type \in {"none", "form"}

\* lines 185-202: the step "user"
StepUser(user_input) ==
    /\ FlowOpen
    /\ IF user_input # PyNone
       THEN /\ flow' = [flow EXCEPT !._provider = user_input.provider,
                                    !._data = DictSet(@, "provider", user_input.provider)]
            /\ flow_result' = ShowForm("credentials", EmptyDict)
       ELSE /\ flow_result' = ShowForm("user", EmptyDict)
            /\ UNCHANGED flow
    /\ UNCHANGED <<build_vars, stream_vars, pending_arg, consumer, consumed, result,
                   invocations, model, model_checks, fetch, entries, os_environ,
                   validation>>

\* lines 204-254: the step "credentials"; transport: what the provider answers
\* to the request for its models
StepCredentials(user_input, transport) ==
    /\ FlowOpen
    /\ LET provider == IF Truthy(flow._provider) THEN flow._provider ELSE DEFAULT_PROVIDER
       IN IF user_input # PyNone
          THEN LET api_key == Get(user_input, "api_key", "")
                   given == Get(user_input, "api_url", "")
                   api_url == IF Truthy(given) THEN given
                              ELSE Get(PROVIDER_URLS, provider, "")
                   fetched == fetch_models_from_provider(provider, api_key, api_url,
                                                         transport)
               IN /\ flow' = [flow EXCEPT
                                 !._api_key = api_key,
                                 !._api_url = api_url,
                                 !._data = DictSet(DictSet(@, "api_key", api_key),
                                                   "api_url", api_url),
                                 !._fetched_models = fetched.result]
                  /\ flow_result' = ShowForm("configure", EmptyDict)
          ELSE /\ flow_result' = ShowForm("credentials", EmptyDict)
               /\ UNCHANGED flow
    /\ UNCHANGED <<build_vars, stream_vars, pending_arg, consumer, consumed, result,
                   invocations, model, model_checks, fetch, entries, os_environ,
                   validation>>

\* faulty variant: the entry is created although validate_input raised
ConfigureResult_IgnoreFailure(data, outcome, configured) ==
    IF configured THEN [type |-> "abort", reason |-> "already_configured"]
    ELSE [type |-> "create_entry", title |-> "AIassistant", data |-> data]

\* lines 271-284 and 331-340: what the step "configure" returns for a submission
ConfigureResult(data, outcome, configured) ==
    IF outcome = "ValueError" THEN ShowForm("configure", [base |-> "cannot_connect"])
    ELSE IF outcome # "ok" THEN ShowForm("configure", [base |-> "unknown"])
    ELSE IF configured THEN [type |-> "abort", reason |-> "already_configured"]
    ELSE [type |-> "create_entry", title |-> "AIassistant", data |-> data]

\* lines 256-340: the step "configure"; configured: an entry with the unique
\* id "aiassistant" exists already
StepConfigure(user_input, openai_ok, configured) ==
    /\ FlowOpen
    /\ LET provider == IF Truthy(flow._provider) THEN flow._provider ELSE DEFAULT_PROVIDER
       IN IF user_input # PyNone
          THEN LET merged == DictUpdate(flow._data, user_input)
                   data == IF Truthy(Get(merged, "api_url", None)) THEN merged
                           ELSE DictSet(merged, "api_url", Get(PROVIDER_URLS, provider, ""))
                   returned == ConfigureResult(data, validate_input(data, openai_ok),
                                               configured)
               IN /\ flow' = [flow EXCEPT !._data = data]
                  /\ flow_result' = returned
                  /\ entries' = IF returned.type = "create_entry"
                                THEN Append(entries, [title |-> returned.title,
                                                      data |-> returned.data])
                                ELSE entries
          ELSE /\ flow_result' = ShowForm("configure", EmptyDict)
               /\ UNCHANGED <<flow, entries>>
    /\ UNCHANGED <<build_vars, stream_vars, pending_arg, consumer, consumed, result,
                   invocations, model, model_checks, fetch, os_environ, validation>>

-----------------------------------------------------------------------------
(* validate_input of ai_config_agent/config_flow.py, lines 38-92 *)

\* os.environ.get(name): None when the variable is not set
EnvironGet(environ, name) == IF environ[name] = Unset THEN None ELSE environ[name].v

\* os.environ[name] = value
EnvironSet(environ, name, value) == [environ EXCEPT ![name] = PyStr(value)]

\* lines 77-80 and 82-85: one variable is put back
Restore(environ, name, original) ==
    IF Truthy(original) THEN EnvironSet(environ, name, original)
    ELSE IF environ[name] # Unset THEN [environ EXCEPT ![name] = Unset]
    ELSE environ

\* lines 55-59: the environment while the client is built and used
Temporary(environ, data, api_url) ==
    LET with_key == EnvironSet(environ, "OPENAI_API_KEY", data.api_key)
    IN IF Truthy(api_url) THEN EnvironSet(with_key, "OPENAI_API_BASE", api_url)
       ELSE with_key

\* lines 38-92: one call; openai_imports: "import openai" succeeds; client_ok:
\* openai.OpenAI(...) returns; default_url: the provider's URL in PROVIDER_URLS
CallValidateInput(openai_imports, client_ok, default_url) ==
    /\ validation.pc = "idle"
    /\ LET data == validation.data
           given == Get(data, "api_url", None)
           api_url == IF Truthy(given) THEN given ELSE default_url
           original_key == EnvironGet(os_environ, "OPENAI_API_KEY")
           original_url == EnvironGet(os_environ, "OPENAI_API_BASE")
           temporary == Temporary(os_environ, data, api_url)
       IN IF ~Truthy(Get(data, "api_key", None))
          THEN /\ validation' = [validation EXCEPT !.pc = "raised", !.during = os_environ]
               /\ UNCHANGED os_environ
          ELSE IF ~openai_imports
          THEN /\ validation' = [validation EXCEPT !.pc = "raised", !.during = os_environ]
               /\ UNCHANGED os_environ
          ELSE /\ validation' = [validation EXCEPT
                                    !.pc = IF client_ok THEN "returned" ELSE "raised",
                                    !.during = temporary]
               /\ os_environ' = Restore(Restore(temporary, "OPENAI_API_KEY", original_key),
                                        "OPENAI_API_BASE", original_url)
    /\ UNCHANGED <<build_vars, stream_vars, pending_arg, consumer, consumed, result,
                   invocations, model, model_checks, fetch, flow, flow_result, entries>>

-----------------------------------------------------------------------------
(* Inputs of the streaming translator *)

SystemMsg == [role |-> "system", content |-> PyStr("be brief")]
UserMsg == [role |-> "user", content |-> PyStr("hi")]

\* a tool_call as the caller stores it from a tool_call event
StoredToolCall(name, ordinal, sig) ==
    IF sig = None
    THEN [id |-> ToolCallId(name, ordinal), type |-> "function",
          function |-> [name |-> name, arguments |-> "{}"]]
    ELSE [id |-> ToolCallId(name, ordinal), type |-> "function",
          function |-> [name |-> name, arguments |-> "{}"],
          thought_signature |-> sig]

AssistantCalls(tool_calls) ==
    [role |-> "assistant", content |-> PyNone, tool_calls |-> tool_calls]

ToolById(id) == [role |-> "tool", tool_call_id |-> id, content |-> PyStr("{}")]

FunctionTool ==
    [type |-> "function",
     function |-> [name |-> "f", description |-> "does f", parameters |-> JsonObjectX]]
OtherTool == [type |-> "retrieval"]
BrokenTool == [type |-> "function"]

Requests ==
    {[messages |-> <<SystemMsg, UserMsg>>, tools |-> <<FunctionTool>>,
      temperature |-> PyNone],
     [messages |-> <<UserMsg, AssistantCalls(<<StoredToolCall("f", 0, "sigA")>>),
                     ToolById("f_0")>>,
      tools |-> <<OtherTool, FunctionTool>>, temperature |-> PyNum(1)],
     [messages |-> <<UserMsg>>, tools |-> <<BrokenTool>>, temperature |-> PyNone]}

SeqsUpTo(S, n) == UNION {[1..k -> S] : k \in 0..n}

\* n copies of s
RECURSIVE Repeat(_, _)
Repeat(s, n) == IF n = 0 THEN "" ELSE s \o Repeat(s, n - 1)

\* an error body longer than the excerpt of line 261 (510 characters)
LongBody == Repeat("0123456789", 51)

ErrorBodies == {"bad request", "", LongBody}

Scripts ==
    {[connect_ok |-> FALSE, status |-> 0, body |-> "", body_ok |-> TRUE,
      lines |-> <<>>, end |-> "eof"]}
    \cup {[connect_ok |-> TRUE, status |-> st, body |-> b, body_ok |-> ok,
           lines |-> <<>>, end |-> "eof"] :
             st \in {204, 400, 500}, b \in ErrorBodies, ok \in BOOLEAN}
    \cup {[connect_ok |-> TRUE, status |-> 200, body |-> "", body_ok |-> TRUE,
           lines |-> ls, end |-> e] : ls \in SeqsUpTo(BodyLines, MaxLines),
                                      e \in {"eof", "reset"}}

Init ==
    /\ \E r \in Requests :
          /\ messages = r.messages
          /\ tools = r.tools
          /\ temperature = r.temperature
    /\ script \in Scripts
    /\ request_body = EmptyDict
    /\ pc = "start"
    /\ session = "none"
    /\ line_idx = 0
    /\ cursor = NoCursor
    /\ accumulated_text = ""
    /\ accumulated_tool_calls = <<>>
    /\ usage_info = EmptyDict
    /\ events = <<>>
    /\ run = 1
    /\ prev_events = <<>>
    /\ msg_idx = 0
    /\ contents = <<>>
    /\ pending_thought_signatures = EmptyDict
    /\ origin = <<>>
    /\ pending_arg = PyNone
    /\ consumer = "iterating"
    /\ consumed = 0
    /\ result = [content |-> "", tool_calls |-> <<>>, usage |-> EmptyDict,
                 finish_reason |-> "stop"]
    /\ invocations = <<>>
    /\ NoModelAsked
    /\ NoSetup

Next ==
    \/ Start
    \/ PostReturns
    \/ TextReturns
    \/ ResumeAfterApiError
    \/ ReadLine
    \/ HandleText
    \/ HandleFunctionCall
    \/ HandleUsage
    \/ EndOfStream
    \/ ReadFails
    \/ ResumeAfterComplete
    \/ ResumeAfterError
    \/ Replay

Spec == Init /\ [][Next]_vars

\* generate_content on the same inputs
SpecWrapper == Init /\ [][NextWrapper]_vars

\* a caller that may stop iterating; an abandoned generator is closed in the end
SpecCancel == Init /\ [][NextCancel]_vars /\ WF_vars(CloseGenerator)

-----------------------------------------------------------------------------
(* The request translator as a state machine: one step per message *)

FunctionNames == {"f", "g_w"}
Signatures == {"sigA", "sigB"}

AssistantMsgs ==
    {AssistantCalls(<<StoredToolCall(n, 0, sg)>>) :
        n \in FunctionNames, sg \in Signatures \cup {None}}
    \cup {AssistantCalls(<<StoredToolCall(n1, 0, "sigA"), StoredToolCall(n2, 1, "sigB")>>) :
            n1 \in FunctionNames, n2 \in FunctionNames}
    \cup {[role |-> "assistant", content |-> PyStr("ok")],
          [role |-> "assistant", content |-> PyStr("")]}

ToolMsgs ==
    {ToolById(ToolCallId(n, k)) : n \in FunctionNames, k \in 0..MaxOrdinal}
    \cup {[role |-> "tool", tool_call_id |-> ToolCallId(n, 0), function_name |-> n,
           content |-> PyStr("{}")] : n \in FunctionNames}
    \cup {[role |-> "tool", tool_call_id |-> "f_0", content |-> PyStr("{}"),
           thought_signature |-> "sigC"]}

MessageUniverse == {SystemMsg, UserMsg} \cup AssistantMsgs \cup ToolMsgs

InitBuild ==
    /\ messages \in SeqsUpTo(MessageUniverse, MaxMsgs)
    /\ msg_idx = 0
    /\ contents = <<>>
    /\ pending_thought_signatures = EmptyDict
    /\ origin = <<>>
    /\ tools = <<>>
    /\ temperature = PyNone
    /\ script = [connect_ok |-> FALSE, status |-> 0, body |-> "", body_ok |-> TRUE,
                 lines |-> <<>>, end |-> "eof"]
    /\ request_body = EmptyDict
    /\ pc = "start"
    /\ session = "none"
    /\ line_idx = 0
    /\ cursor = NoCursor
    /\ accumulated_text = ""
    /\ accumulated_tool_calls = <<>>
    /\ usage_info = EmptyDict
    /\ events = <<>>
    /\ run = 1
    /\ prev_events = <<>>
    /\ pending_arg = PyNone
    /\ consumer = "iterating"
    /\ consumed = 0
    /\ result = [content |-> "", tool_calls |-> <<>>, usage |-> EmptyDict,
                 finish_reason |-> "stop"]
    /\ invocations = <<>>
    /\ NoModelAsked
    /\ NoSetup

\* lines 94-184: one iteration of "for msg in messages"
BuildMessage ==
    /\ msg_idx < Len(messages)
    /\ LET tr == TranslateMessage(messages[msg_idx + 1], pending_thought_signatures)
       IN /\ contents' = AppendEntry(contents, tr)
          /\ pending_thought_signatures' = tr.pending
          /\ pending_arg' = CallerMapAfter(pending_arg, tr.pending)
          /\ origin' = IF AppendEntry(contents, tr) # contents
                       THEN Append(origin, msg_idx + 1)
                       ELSE origin
    /\ msg_idx' = msg_idx + 1
    /\ UNCHANGED <<messages, stream_vars, consumer, consumed, result, invocations, model, model_checks, setup_vars>>

NextBuild == BuildMessage

SpecBuild == InitBuild /\ [][NextBuild]_vars

-----------------------------------------------------------------------------
(* The system instruction of a request: the messages are translated one by *)
(* one and the request body is built                                       *)

MaxSystemMsgs == 3

TextSegment(text) == [type |-> "text", text |-> text]
ImageSegment == [type |-> "image_url", image_url |-> "http://x/y.png"]

SystemMsgs ==
    {SystemMsg,
     [role |-> "system", content |-> PyStr("be formal")],
     [role |-> "system", content |-> PyStr("")],
     [role |-> "system", content |-> PyNone],
     [role |-> "system"],
     [role |-> "system", content |-> PyList(<<TextSegment("a"), TextSegment("b")>>)],
     [role |-> "system", content |-> PyList(<<TextSegment("a"), ImageSegment>>)]}

\* the state before a request is built from one of the given message lists,
\* tool lists and pending_thought_signatures arguments
InitTranslator(message_lists, tool_lists, pending_args) ==
    /\ messages \in message_lists
    /\ msg_idx = 0
    /\ contents = <<>>
    /\ pending_arg \in pending_args
    /\ pending_thought_signatures = LocalPending(pending_arg)
    /\ origin = <<>>
    /\ tools \in tool_lists
    /\ temperature = PyNone
    /\ script = [connect_ok |-> FALSE, status |-> 0, body |-> "", body_ok |-> TRUE,
                 lines |-> <<>>, end |-> "eof"]
    /\ request_body = EmptyDict
    /\ pc = "start"
    /\ session = "none"
    /\ line_idx = 0
    /\ cursor = NoCursor
    /\ accumulated_text = ""
    /\ accumulated_tool_calls = <<>>
    /\ usage_info = EmptyDict
    /\ events = <<>>
    /\ run = 1
    /\ prev_events = <<>>
    /\ consumer = "iterating"
    /\ consumed = 0
    /\ result = [content |-> "", tool_calls |-> <<>>, usage |-> EmptyDict,
                 finish_reason |-> "stop"]

InitSystem ==
    /\ InitTranslator(SeqsUpTo(SystemMsgs \cup {UserMsg}, MaxSystemMsgs), {<<>>}, {PyNone})
    /\ invocations = <<>>
    /\ NoModelAsked
    /\ NoSetup

NextSystem == BuildMessage \/ Start

SpecSystem == InitSystem /\ [][NextSystem]_vars

-----------------------------------------------------------------------------
(* The request translator on messages of every role and content shape *)

MaxContentMsgs == 3

\* a tool_call whose arguments text is not JSON
MalformedCall ==
    [id |-> "f_0", type |-> "function",
     function |-> [name |-> "f", arguments |-> "not json"]]

UserMsgs ==
    {UserMsg,
     [role |-> "user", content |-> PyStr("")],
     [role |-> "user", content |-> PyList(<<TextSegment("a"), ImageSegment>>)],
     [content |-> PyStr("no role")]}

AssistantContentMsgs ==
    {[role |-> "assistant", content |-> PyStr("")],
     [role |-> "assistant", content |-> PyNone],
     [role |-> "assistant", content |-> PyNone, tool_calls |-> <<>>],
     AssistantCalls(<<StoredToolCall("f", 0, "sigA")>>),
     AssistantCalls(<<MalformedCall>>),
     [role |-> "assistant", content |-> PyStr("ok"),
      tool_calls |-> <<StoredToolCall("f", 0, None), MalformedCall>>]}

ToolContentMsgs ==
    {ToolById("f_0"),
     [role |-> "tool", tool_call_id |-> "f_0", content |-> PyStr("{\"x\": 1}")],
     [role |-> "tool", tool_call_id |-> "f_0", content |-> PyStr("done")],
     [role |-> "tool", tool_call_id |-> "f_0", content |-> PyStr("")],
     [role |-> "tool", tool_call_id |-> "f_0", content |-> PyNone],
     [role |-> "tool", tool_call_id |-> "f_0",
      content |-> PyList(<<TextSegment("a")>>)]}

ContentUniverse ==
    {SystemMsg} \cup UserMsgs \cup AssistantContentMsgs \cup ToolContentMsgs

InitContent ==
    /\ InitTranslator(SeqsUpTo(ContentUniverse, MaxContentMsgs), {<<>>}, {PyNone})
    /\ invocations = <<>>
    /\ NoModelAsked
    /\ NoSetup

NextContent == BuildMessage

SpecContent == InitContent /\ [][NextContent]_vars

-----------------------------------------------------------------------------
(* The tool list of a request *)

MaxTools == 3

ToolUniverse ==
    {FunctionTool,
     [type |-> "function", function |-> [name |-> "g_w"]],
     [type |-> "function",
      function |-> [name |-> "h", description |-> "", parameters |-> JsonEmptyObject]],
     OtherTool,
     [function |-> [name |-> "untyped", description |-> "no type"]],
     BrokenTool}

InitTools ==
    /\ InitTranslator({<<UserMsg>>}, SeqsUpTo(ToolUniverse, MaxTools), {PyNone})
    /\ invocations = <<>>
    /\ NoModelAsked
    /\ NoSetup

NextTools == Start \/ BuildMessage

SpecTools == InitTools /\ [][NextTools]_vars

-----------------------------------------------------------------------------
(* The caller's objects: a direct call of _build_contents, then a call of *)
(* generate_content_stream with the same arguments                        *)

MaxFrameMsgs == 3

FrameMsgs ==
    {UserMsg,
     AssistantCalls(<<StoredToolCall("f", 0, "sigA")>>),
     AssistantCalls(<<StoredToolCall("g_w", 0, "sigB")>>),
     ToolById("f_0")}

\* the pending_thought_signatures argument: absent, an empty map, a map with
\* an entry
PendingArgs ==
    {PyNone, [t |-> "dict", v |-> EmptyDict], [t |-> "dict", v |-> [f |-> "sig0"]]}

InitFrame ==
    /\ InitTranslator(SeqsUpTo(FrameMsgs, MaxFrameMsgs), {<<FunctionTool>>}, PendingArgs)
    /\ invocations = <<>>
    /\ NoModelAsked
    /\ NoSetup

NextFrame ==
    \/ BuildMessage
    \/ msg_idx = Len(messages) /\ Start

SpecFrame == InitFrame /\ [][NextFrame]_vars

-----------------------------------------------------------------------------
(* Two invocations on one client, each with its own arguments and its own *)
(* response                                                               *)

ConcurrentLines ==
    {"data: " \o j \o "\n" : j \in {JsonTextThenCallGW, JsonTwoCalls, JsonTextCUsage}}

ConcurrentScripts ==
    {[connect_ok |-> TRUE, status |-> 400, body |-> "bad request", body_ok |-> TRUE,
      lines |-> <<>>, end |-> "eof"]}
    \cup {[connect_ok |-> TRUE, status |-> 200, body |-> "", body_ok |-> TRUE,
           lines |-> ls, end |-> "eof"] : ls \in SeqsUpTo(ConcurrentLines, MaxLines)}
    \cup {[connect_ok |-> TRUE, status |-> 200, body |-> "", body_ok |-> TRUE,
           lines |-> <<"data: " \o JsonTwoCalls \o "\n">>, end |-> "reset"]}

\* the invocations with the given messages, one per response
ConcurrentCalls(msgs) ==
    {NewInvocation(msgs, <<FunctionTool>>, transport) : transport \in ConcurrentScripts}

InitConcurrent ==
    /\ InitTranslator({<<>>}, {<<>>}, {PyNone})
    /\ invocations \in {<<first, second>> :
                            first \in ConcurrentCalls(<<UserMsg>>),
                            second \in ConcurrentCalls(<<SystemMsg, UserMsg>>)}
    /\ NoModelAsked
    /\ NoSetup

NextConcurrent == AdvanceInvocation

SpecConcurrent == InitConcurrent /\ [][NextConcurrent]_vars

-----------------------------------------------------------------------------
(* Properties of the streaming translator (checked under Spec) *)

Last(seq) == seq[Len(seq)]

EventsOfType(evs, type) == {i \in 1..Len(evs) : evs[i].type = type}

TerminalEvents == EventsOfType(events, "complete") \cup EventsOfType(events, "error")

\* the concatenation of the payloads of the content events of evs, in order
RECURSIVE ContentPayloads(_)
ContentPayloads(evs) ==
    IF evs = <<>> THEN ""
    ELSE (IF Head(evs).type = "content" THEN Head(evs).content ELSE "")
         \o ContentPayloads(Tail(evs))

\* the descriptors of the tool_call events of evs, in order
RECURSIVE ToolCallPayloads(_)
ToolCallPayloads(evs) ==
    IF evs = <<>> THEN <<>>
    ELSE (IF Head(evs).type = "tool_call" THEN <<Head(evs).tool_call>> ELSE <<>>)
         \o ToolCallPayloads(Tail(evs))

\* the truthy signatures the descriptors of a list of tool calls carry
SignaturesOf(tool_calls) ==
    {Get(tool_calls[i], "thought_signature", None) : i \in 1..Len(tool_calls)}
    \ {None, ""}

\* C1: an invocation drained to the end has emitted exactly one terminal event,
\* a complete event or an error event, never both and never neither (and at no
\* point more than one).
C1_ExactlyOneTerminal ==
    /\ Cardinality(TerminalEvents) <= 1
    /\ pc = "done" => Cardinality(TerminalEvents) = 1

\* C1 witness: a drained invocation whose failure came after a content event.
C1_Witness ==
    /\ pc = "done"
    /\ Len(events) >= 2
    /\ events[1].type = "content"
    /\ Last(events).type = "error"

\* C2: an error event is the last event of its invocation: it is emitted at
\* most once and no event of any type follows it.
C2_ErrorTerminates ==
    \A i \in 1..Len(events) : events[i].type = "error" => i = Len(events)

\* C2 witness: the generator has ended after an error event that followed a
\* tool_call event.
C2_Witness ==
    /\ pc = "done"
    /\ EventsOfType(events, "tool_call") # {}
    /\ EventsOfType(events, "error") # {}

\* C6: when the functionCall Part being handled, or the Content enclosing it,
\* carries a thought_signature not yet captured in this turn, the tool_call
\* event emitted for the Part carries that signature.
CarriedSignature ==
    LET own == Get(CurrentPart.functionCall, "thought_signature", None)
        part_level == Get(CurrentPart, "thought_signature", None)
    IN IF Truthy(own) THEN own
       ELSE IF Truthy(part_level) THEN part_level
       ELSE Get(CurrentContent, "thought_signature", None)

C6_SignatureCaptured ==
    [][(/\ pc = "in_chunk"
        /\ cursor.phase = "call"
        /\ "functionCall" \in DOMAIN CurrentPart
        /\ Truthy(CarriedSignature)
        /\ CarriedSignature \notin SignaturesOf(accumulated_tool_calls))
       => (/\ Len(events') = Len(events) + 1
           /\ Last(events').type = "tool_call"
           /\ Get(Last(events').tool_call, "thought_signature", None) = CarriedSignature)]_vars

\* C7: the complete event carries the thought_signature captured during the
\* turn, besides content, tool_calls, usage and finish_reason.
C7_CompleteCarriesSignature ==
    \A i \in EventsOfType(events, "complete") :
        /\ {"content", "tool_calls", "usage", "finish_reason"} \subseteq DOMAIN events[i]
        /\ SignaturesOf(events[i].tool_calls) # {} =>
              \E key \in {"thought_signature", "message_signature"} :
                 /\ key \in DOMAIN events[i]
                 /\ events[i][key] \in SignaturesOf(events[i].tool_calls)

\* C8: in every complete event finish_reason is "tool_calls" exactly when the
\* event's tool_calls list is non-empty, and "stop" otherwise.
C8_FinishReason ==
    \A i \in EventsOfType(events, "complete") :
        /\ events[i].finish_reason = "tool_calls" <=> events[i].tool_calls # <<>>
        /\ events[i].tool_calls = <<>> => events[i].finish_reason = "stop"

\* C8 witness: a complete event with a tool call in it.
C8_Witness ==
    \E i \in EventsOfType(events, "complete") :
        /\ events[i].tool_calls # <<>>
        /\ events[i].finish_reason = "tool_calls"

\* C9: the content of a complete event is the concatenation, in emission order,
\* of the payloads of the content events before it, and its tool_calls is the
\* list, in emission order, of the descriptors of the tool_call events before it.
C9_Accumulation ==
    \A i \in EventsOfType(events, "complete") :
        /\ events[i].content = ContentPayloads(SubSeq(events, 1, i - 1))
        /\ events[i].tool_calls = ToolCallPayloads(SubSeq(events, 1, i - 1))

\* C9 witness: a complete event after two content events and a tool_call event.
C9_Witness ==
    /\ EventsOfType(events, "complete") # {}
    /\ Cardinality(EventsOfType(events, "content")) >= 2
    /\ EventsOfType(events, "tool_call") # {}

\* C10: a second run fed the same lines has emitted, once drained, the event
\* sequence of the first run.
C10_IdempotentReplay ==
    (run > 1 /\ pc = "done") => events = prev_events

\* C10 witness: a drained second run that ended with a complete event holding a
\* tool call and text.
C10_Witness ==
    /\ run > 1
    /\ pc = "done"
    /\ events # <<>>
    /\ Last(events).type = "complete"
    /\ Last(events).tool_calls # <<>>
    /\ Last(events).content # ""

-----------------------------------------------------------------------------
(* Properties of the request translator (checked under SpecBuild) *)

IsTool(j) == Get(messages[j], "role", "user") = "tool"

HasToolCalls(i) ==
    Get(messages[i], "role", "user") = "assistant" /\ "tool_calls" \in DOMAIN messages[i]

\* the functionResponse built from the tool-role message j (already processed)
ResponseOf(j) ==
    LET k == CHOOSE k \in 1..Len(origin) : origin[k] = j
    IN Last(contents[k].parts).functionResponse

\* the tool-role message m references function f: by its function_name field,
\* or, without one, by a tool_call_id that starts with f and a delimiter
References(m, f) ==
    \/ Get(m, "function_name", "") = f
    \/ /\ Get(m, "function_name", "") = ""
       /\ StartsWith(Get(m, "tool_call_id", ""), f \o "_")

\* a tool_call for f that carries a signature lies after call c of message i and
\* before message j
SignedCallBetween(i, c, j, f) ==
    \E i2 \in i..(j - 1) :
        /\ HasToolCalls(i2)
        /\ \E c2 \in 1..Len(messages[i2].tool_calls) :
              /\ i2 > i \/ c2 > c
              /\ messages[i2].tool_calls[c2].function.name = f
              /\ Truthy(Get(messages[i2].tool_calls[c2], "thought_signature", None))

\* C3: when an assistant tool_call for f carries thought_signature s (and no
\* later signed call to f precedes the answer), a later tool-role message that
\* references f and has no thought_signature of its own yields a
\* functionResponse whose thought_signature is s.
C3_RoundTripSignature ==
    \A j \in 1..msg_idx : \A i \in 1..(j - 1) :
        (IsTool(j) /\ HasToolCalls(i) /\ "thought_signature" \notin DOMAIN messages[j]) =>
            \A c \in 1..Len(messages[i].tool_calls) :
                LET tc == messages[i].tool_calls[c]
                    f == tc.function.name
                    sig == Get(tc, "thought_signature", None)
                IN (/\ Truthy(sig)
                    /\ References(messages[j], f)
                    /\ ~SignedCallBetween(i, c, j, f))
                   => Get(ResponseOf(j), "thought_signature", None) = sig

\* C4: a tool-role message that supplies only the tool_call_id the response
\* translator synthesized for a call to f, "<f>_<n>", and no function_name,
\* yields a functionResponse whose name is f.
C4_BindingRecovered ==
    \A j \in 1..msg_idx :
        (IsTool(j) /\ "function_name" \notin DOMAIN messages[j]) =>
            \A f \in FunctionNames : \A n \in 0..MaxOrdinal :
                Get(messages[j], "tool_call_id", "") = ToolCallId(f, n)
                    => ResponseOf(j).name = f

\* the tool-role message j answers call c of the assistant message i: it names
\* the call's id and belongs to the exchange that message i opened
Answers(j, i, c) ==
    /\ IsTool(j)
    /\ i < j
    /\ Get(messages[j], "tool_call_id", "") = messages[i].tool_calls[c].id
    /\ \A k \in (i + 1)..(j - 1) : IsTool(k)

\* C5: every assistant tool_call that carries a thought_signature s and is
\* answered by a later tool-role message has s on the functionResponse built for
\* that message, also when several calls to the same function carry different
\* signatures. (Stated for the answers whose function name was resolved to the
\* call's function, so that a violation is a lost signature and not only the
\* misresolved name of C4.)
C5_EverySignaturePropagated ==
    \A j \in 1..msg_idx : \A i \in 1..(j - 1) :
        HasToolCalls(i) =>
            \A c \in 1..Len(messages[i].tool_calls) :
                LET tc == messages[i].tool_calls[c]
                    sig == Get(tc, "thought_signature", None)
                IN (/\ Truthy(sig)
                    /\ Answers(j, i, c)
                    /\ "thought_signature" \notin DOMAIN messages[j]
                    /\ ResponseOf(j).name = tc.function.name)
                   => Get(ResponseOf(j), "thought_signature", None) = sig


-----------------------------------------------------------------------------
(* Further properties of the streaming translator (checked under Spec) *)

\* C11: the i-th functionCall Part handled in a turn (counting from 0) gets the
\* id "<name>_<i>", and the ids of the tool calls of one turn are pairwise
\* distinct, also for names that contain underscores or digits.
C11_ToolCallIds ==
    LET calls == ToolCallPayloads(events)
    IN /\ \A i \in 1..Len(calls) :
             calls[i].id = calls[i].function.name \o "_" \o IntToStr(i - 1)
       /\ \A i \in 1..Len(calls) : \A j \in 1..Len(calls) :
             calls[i].id = calls[j].id => i = j

\* C11 witness: a turn with three tool calls, among them "f_1" called first and
\* "f" called second (ids "f_1_0" and "f_1").
C11_Witness ==
    LET calls == ToolCallPayloads(events)
    IN /\ Len(calls) >= 3
       /\ calls[1].function.name = "f_1"
       /\ calls[2].id = "f_1"


\* the transport has answered the current invocation with a status other than 200
AnsweredNon200 ==
    /\ script.connect_ok
    /\ script.status # 200
    /\ pc \in {"await_text", "yielded_api_error", "yielded_error", "done"}
    /\ "contents" \in DOMAIN request_body

\* C19: when the transport answers with a status other than 200 the
\* invocation emits exactly one event, an error event, and no content,
\* tool_call or complete event, and the body is never read as a stream; the
\* message of the error holds the status code and the body cut to at most 500
\* characters (when the body could be read).
C19_ErrorOnNon200 ==
    AnsweredNon200 =>
        /\ \A i \in 1..Len(events) : events[i].type = "error"
        /\ Len(events) = IF pc = "await_text" THEN 0 ELSE 1
        /\ line_idx = 0 /\ cursor = NoCursor
        /\ (script.body_ok /\ events # <<>>) =>
              LET message == events[1].error
                  head == "API error " \o IntToStr(script.status) \o ": "
                  excerpt == DropPrefix(message, Len(head))
              IN /\ StartsWith(message, head)
                 /\ Len(excerpt) <= 500
                 /\ Len(excerpt) = IF Len(script.body) < 500 THEN Len(script.body) ELSE 500
                 /\ StartsWith(script.body, excerpt)

\* C19 witness: a 400 answer with a body of more than 500 characters has been
\* reported, and the invocation is over.
C19_Witness ==
    /\ AnsweredNon200
    /\ pc = "done"
    /\ script.status = 400
    /\ script.body_ok
    /\ Len(script.body) > 500
    /\ Len(events) = 1
    /\ Len(events[1].error) = 500 + Len("API error 400: ")

\* the lines of the claim: blank, comment, and data with a payload that is not JSON
MalformedLines == {"\n", ": ping\n", "data: not json\n"}

\* the lines whose handling raises: undecodable bytes, a JSON payload that is
\* not an object, a text Part that is not a string
RaisingLines ==
    {InvalidUtf8, "data: " \o JsonNumber \o "\n", "data: " \o JsonTextThenBadText \o "\n"}

\* the text a line of the body carries
LineText(raw) ==
    CASE raw = "data: " \o JsonTextAB \o "\n" -> "ab"
      [] raw = "data: " \o JsonTextCUsage \o "\n" -> "c"
      [] raw = "data: " \o JsonTextThenCallGW \o "\n" -> "ab"
      [] OTHER -> ""

\* the number of content and tool_call events a line of the body stands for
LineEventCount(raw) ==
    CASE raw \in {"data: " \o JsonTextAB \o "\n", "data: " \o JsonTextCUsage \o "\n",
                  "data: " \o JsonCallF \o "\n", "data: " \o JsonCallContentSig \o "\n"} -> 1
      [] raw \in {"data: " \o JsonTextThenCallGW \o "\n", "data: " \o JsonTwoCalls \o "\n"} -> 2
      [] OTHER -> 0

RECURSIVE TextOfLines(_)
TextOfLines(ls) == IF ls = <<>> THEN "" ELSE LineText(Head(ls)) \o TextOfLines(Tail(ls))

RECURSIVE EventCountOfLines(_)
EventCountOfLines(ls) ==
    IF ls = <<>> THEN 0 ELSE LineEventCount(Head(ls)) + EventCountOfLines(Tail(ls))

\* the lines read so far
LinesRead == SubSeq(script.lines, 1, line_idx)

\* a 200 answer is being read, or has been
Streaming ==
    /\ script.connect_ok
    /\ script.status = 200
    /\ "contents" \in DOMAIN request_body
    /\ pc \in {"await_line", "in_chunk", "yielded_complete", "yielded_error", "done"}

\* C20: in a 200 response a blank line, a comment line and a data line whose
\* payload is not JSON produce no event and do not abort the stream: the
\* events are exactly those of the other lines, every chunk after such a line
\* is processed, and a body that ends normally ends with the complete event,
\* also when such a line is the only line.
C20_MalformedLineResilience ==
    (Streaming /\ \A i \in 1..line_idx : script.lines[i] \notin RaisingLines) =>
        /\ pc = "yielded_error" => (line_idx = Len(script.lines) /\ script.end = "reset")
        /\ pc = "await_line" =>
              /\ Len(events) = EventCountOfLines(LinesRead)
              /\ accumulated_text = TextOfLines(LinesRead)
              /\ \A i \in 1..Len(events) : events[i].type \in {"content", "tool_call"}
        /\ (pc = "yielded_complete" \/ (pc = "done" /\ script.end = "eof")) =>
              /\ line_idx = Len(script.lines)
              /\ Len(events) = EventCountOfLines(script.lines) + 1
              /\ Last(events).type = "complete"
              /\ Last(events).content = TextOfLines(script.lines)
              /\ ContentPayloads(events) = TextOfLines(script.lines)
              /\ EventsOfType(events, "error") = {}

\* C20 witness: a data line that is not JSON came first, the chunk after it
\* yielded its content event, and the stream ended with the complete event.
C20_Witness ==
    /\ Streaming
    /\ script.lines = <<"data: not json\n", "data: " \o JsonTextAB \o "\n">>
    /\ pc = "yielded_complete"
    /\ Len(events) = 2
    /\ events[1] = [type |-> "content", content |-> "ab"]
    /\ events[2].type = "complete"

-----------------------------------------------------------------------------
(* Properties of the system instruction (checked under SpecSystem) *)

IsSystem(j) == Get(messages[j], "role", "user") = "system"

SystemIndexes == {j \in 1..Len(messages) : IsSystem(j)}

FirstSystem == CHOOSE j \in SystemIndexes : \A k \in SystemIndexes : j <= k

RequestBuilt == pc # "start" /\ "contents" \in DOMAIN request_body

\* C12: for a message list with at least one system message, the request has
\* a systemInstruction, it is the one derived from the first system message
\* alone, whatever that message's content is, and no system message has an
\* entry in contents.
C12_SystemInstructionIsolation ==
    /\ \A k \in 1..Len(origin) : ~IsSystem(origin[k])
    /\ (RequestBuilt /\ SystemIndexes # {}) =>
          LET alone == _get_system_instruction(<<messages[FirstSystem]>>)
          IN /\ "systemInstruction" \in DOMAIN request_body
             /\ alone.t = "dict"
             /\ request_body.systemInstruction = alone.v
             /\ Len(request_body.contents) = Len(messages) - Cardinality(SystemIndexes)

\* the texts of the text-typed segments, in order, concatenated
RECURSIVE ConcatTextSegments(_)
ConcatTextSegments(items) ==
    IF items = <<>> THEN ""
    ELSE (IF Get(Head(items), "type", None) = "text"
          THEN Get(Head(items), "text", "")
          ELSE "") \o ConcatTextSegments(Tail(items))

\* C13: when the first system message has a string content the instruction
\* text is that string, and when it has a list content the instruction text is
\* the concatenation of the texts of its text segments, in order.
C13_InstructionText ==
    (RequestBuilt /\ SystemIndexes # {}) =>
        LET content == Get(messages[FirstSystem], "content", PyStr(""))
            expected == IF content.t = "str" THEN content.v
                        ELSE ConcatTextSegments(content.items)
        IN content.t \in {"str", "list"} =>
              /\ "systemInstruction" \in DOMAIN request_body
              /\ request_body.systemInstruction.parts = <<[text |-> expected]>>


-----------------------------------------------------------------------------
(* Properties of the request translator (checked under SpecContent) *)

RoleOf(j) == Get(messages[j], "role", "user")

\* the indexes of the contents entries that come from message j
EntriesOf(j) == {k \in 1..Len(origin) : origin[k] = j}

Translated == 1..msg_idx

\* C14: every contents entry has a non-empty parts list, a message that yields
\* no Part has no entry (and one that yields a Part has one), and the entries
\* keep the relative order of their messages.
C14_TurnDropping ==
    /\ Len(origin) = Len(contents)
    /\ \A k \in 1..Len(contents) : contents[k].parts # <<>>
    /\ \A k \in 1..Len(origin) : \A l \in 1..Len(origin) :
          k < l => origin[k] < origin[l]
    /\ \A j \in Translated :
          LET yielded == TranslateMessage(messages[j], EmptyDict).parts
          IN /\ yielded = <<>> => EntriesOf(j) = {}
             /\ (yielded # <<>> /\ RoleOf(j) # "system") => Cardinality(EntriesOf(j)) = 1
    /\ \A j \in Translated :
          (/\ RoleOf(j) = "assistant"
           /\ ~PyTruthy(Get(messages[j], "content", PyNone))
           /\ Get(messages[j], "tool_calls", <<>>) = <<>>) => EntriesOf(j) = {}

\* C14 witness: an assistant message with null content and no tool_calls is
\* dropped between two messages that keep their entries.
C14_Witness ==
    /\ msg_idx = 3
    /\ messages[2] = [role |-> "assistant", content |-> PyNone]
    /\ origin = <<1, 3>>

\* C15: every entry has role user, model or function, the role is the one of
\* its message (user -> user, assistant -> model, tool -> function),
\* functionCall Parts occur only in model entries and functionResponse Parts
\* only in function entries.
C15_RoleMapping ==
    \A k \in 1..Len(contents) :
        LET entry == contents[k]
            role == RoleOf(origin[k])
        IN /\ entry.role \in {"user", "model", "function"}
           /\ role = "user" => entry.role = "user"
           /\ role = "assistant" => entry.role = "model"
           /\ role = "tool" => entry.role = "function"
           /\ \A p \in 1..Len(entry.parts) :
                 /\ "functionCall" \in DOMAIN entry.parts[p] => entry.role = "model"
                 /\ "functionResponse" \in DOMAIN entry.parts[p] => entry.role = "function"

\* C15 witness: a user, an assistant and a tool message have all been
\* translated, the assistant one with a functionCall Part.
C15_Witness ==
    /\ Len(contents) = 3
    /\ <<RoleOf(origin[1]), RoleOf(origin[2]), RoleOf(origin[3])>>
          = <<"user", "assistant", "tool">>
    /\ \E p \in 1..Len(contents[2].parts) : "functionCall" \in DOMAIN contents[2].parts[p]

\* C16: every tool message has one contents entry, with exactly one Part, a
\* functionResponse, and no text Part, whatever its content is.
C16_ToolMessageOnePart ==
    \A j \in Translated :
        RoleOf(j) = "tool" =>
            /\ Cardinality(EntriesOf(j)) = 1
            /\ \A k \in EntriesOf(j) :
                  /\ Len(contents[k].parts) = 1
                  /\ DOMAIN contents[k].parts[1] = {"functionResponse"}

\* C16 witness: tool messages with a plain text, a null and a list content
\* have been translated.
C16_Witness ==
    /\ msg_idx = 3
    /\ Len(contents) = 3
    /\ messages[1] = [role |-> "tool", tool_call_id |-> "f_0", content |-> PyStr("done")]
    /\ messages[2] = [role |-> "tool", tool_call_id |-> "f_0", content |-> PyNone]
    /\ messages[3].content.t = "list"

IsMalformedCall(tc) ==
    ~json_loads(Get(Get(tc, "function", EmptyDict), "arguments", "{}")).ok

HasMalformedContent(msg) ==
    /\ Get(msg, "content", PyStr("{}")).t = "str"
    /\ ~json_loads(Get(msg, "content", PyStr("{}")).v).ok

FunctionCallParts(parts) == SelectSeq(parts, LAMBDA p : "functionCall" \in DOMAIN p)

\* C17: a tool_call whose arguments are not valid JSON still yields its
\* functionCall Part, with args = {}; a tool message whose content is not valid
\* JSON still yields its functionResponse, with response = {"result": raw
\* text}; and the user messages around them are translated as well.
C17_MalformedPayloads ==
    /\ \A j \in Translated :
          (RoleOf(j) = "assistant" /\ Get(messages[j], "tool_calls", <<>>) # <<>>) =>
              /\ Cardinality(EntriesOf(j)) = 1
              /\ \A k \in EntriesOf(j) :
                    LET calls == FunctionCallParts(contents[k].parts)
                        tcs == messages[j].tool_calls
                    IN /\ Len(calls) = Len(tcs)
                       /\ \A c \in 1..Len(tcs) :
                             /\ calls[c].functionCall.name = tcs[c].function.name
                             /\ IsMalformedCall(tcs[c]) =>
                                   calls[c].functionCall.args = [t |-> "dict", v |-> EmptyDict]
    /\ \A j \in Translated :
          (RoleOf(j) = "tool" /\ HasMalformedContent(messages[j])) =>
              /\ Cardinality(EntriesOf(j)) = 1
              /\ \A k \in EntriesOf(j) :
                    contents[k].parts[1].functionResponse.response
                        = [t |-> "dict", v |-> [result |-> messages[j].content.v]]
    /\ \A j \in Translated : messages[j] = UserMsg => Cardinality(EntriesOf(j)) = 1

\* C17 witness: after a tool_call with malformed arguments and a tool message
\* with a plain-text content, a following user message is translated.
C17_Witness ==
    /\ msg_idx = 3
    /\ messages = <<AssistantCalls(<<MalformedCall>>),
                    [role |-> "tool", tool_call_id |-> "f_0", content |-> PyStr("done")],
                    UserMsg>>
    /\ Len(contents) = 3
    /\ contents[3].parts = <<[text |-> "hi"]>>


-----------------------------------------------------------------------------
(* Properties of the tool list (checked under SpecTools) *)

IsFunctionTool(tool) == Get(tool, "type", None) = "function"

\* a function-typed definition with its "function" object and its name
WellFormed(tool) ==
    IsFunctionTool(tool) => "function" \in DOMAIN tool /\ "name" \in DOMAIN tool.function

ExpectedDeclarations ==
    LET fs == SelectSeq(tools, IsFunctionTool)
    IN [i \in 1..Len(fs) |->
           [name |-> fs[i].function.name,
            description |-> Get(fs[i].function, "description", ""),
            parameters |-> Get(fs[i].function, "parameters", [t |-> "dict", v |-> EmptyDict])]]

\* C18: the function declarations of the request are the tool definitions of
\* type "function", one each, in input order, with the definition's name,
\* description and parameters; definitions of another type or without a type
\* are left out and raise nothing.
C18_ToolSchemaMapping ==
    (pc # "start" /\ \A i \in 1..Len(tools) : WellFormed(tools[i])) =>
        /\ events = <<>>
        /\ request_body.tools = <<[functionDeclarations |-> ExpectedDeclarations]>>

\* C18 witness: a request built from two function definitions with a
\* definition of another type between them.
C18_Witness ==
    /\ pc = "await_post"
    /\ Len(tools) = 3
    /\ tools[1] = FunctionTool
    /\ tools[2] = OtherTool
    /\ IsFunctionTool(tools[3]) /\ "description" \notin DOMAIN tools[3].function
    /\ Len(request_body.tools[1].functionDeclarations) = 2


-----------------------------------------------------------------------------
(* Usage and the non-streaming wrapper (checked under Spec) *)

\* the usage metadata a line of the body carries, as the complete event
\* reports it
LineUsage(raw) ==
    CASE raw = "data: " \o JsonTextCUsage \o "\n" ->
            [prompt_tokens |-> 1, completion_tokens |-> 2, total_tokens |-> 3]
      [] raw = "data: " \o JsonUsageOnly \o "\n" ->
            [prompt_tokens |-> 4, completion_tokens |-> 0, total_tokens |-> 0]
      [] OTHER -> EmptyDict

UsageLines == {i \in 1..Len(script.lines) : LineUsage(script.lines[i]) # EmptyDict}

LastUsageLine == CHOOSE i \in UsageLines : \A k \in UsageLines : k <= i

\* C21: the usage of the complete event is the usage metadata of the last
\* chunk of the stream that carried any, whatever earlier chunks carried, and
\* is empty when no chunk carried usage metadata.
C21_UsageLastSeenWins ==
    \A e \in 1..Len(events) :
        events[e].type = "complete" =>
            events[e].usage = IF UsageLines = {} THEN EmptyDict
                              ELSE LineUsage(script.lines[LastUsageLine])

\* C21 witness: two chunks carried different usage metadata and the complete
\* event reports the second.
C21_Witness ==
    /\ pc = "yielded_complete"
    /\ Cardinality(UsageLines) = 2
    /\ LineUsage(script.lines[1]) # LineUsage(script.lines[2])
    /\ Last(events).usage = LineUsage(script.lines[2])


-----------------------------------------------------------------------------
(* Properties of generate_content (checked under SpecWrapper) *)

Received == SubSeq(events, 1, consumed)

\* C22: generate_content raises as soon as it receives an error event, also
\* after content or tool_call events, and then returns nothing; it returns a
\* result only when the stream ended with the complete event.
C22_WrapperRaisesOnError ==
    /\ EventsOfType(Received, "error") # {} => consumer = "raised"
    /\ consumer = "raised" => (consumed >= 1 /\ events[consumed].type = "error")
    /\ consumer = "returned" =>
          /\ events # <<>>
          /\ Last(events).type = "complete"
          /\ EventsOfType(events, "error") = {}
          /\ consumed = Len(events)

\* C22 witness: the wrapper raised on an error event that came after a
\* content event.
C22_Witness ==
    /\ consumer = "raised"
    /\ consumed >= 2
    /\ events[1].type = "content"
    /\ events[consumed].type = "error"

\* C23: when the stream ended with the complete event, the result returned by
\* generate_content has the content, the tool_calls in order, the usage and
\* the finish_reason of that event.
C23_ResultEqualsComplete ==
    consumer = "returned" =>
        LET complete == Last(events)
        IN /\ complete.type = "complete"
           /\ result = [content |-> complete.content,
                        tool_calls |-> complete.tool_calls,
                        usage |-> complete.usage,
                        finish_reason |-> complete.finish_reason]

\* C23 witness: a result with text, tool calls and usage has been returned.
C23_Witness ==
    /\ consumer = "returned"
    /\ result.content # ""
    /\ Len(result.tool_calls) >= 1
    /\ result.usage # EmptyDict
    /\ result.finish_reason = "tool_calls"


-----------------------------------------------------------------------------
(* Properties of the caller's objects (checked under SpecFrame) *)

\* C24: no step of _build_contents or generate_content_stream changes an
\* object the caller supplied: the message list and the
\* pending_thought_signatures map, passed empty or not, stay as they were.
C24_CallerObjectsUnchanged ==
    [][messages' = messages /\ pending_arg' = pending_arg]_vars


-----------------------------------------------------------------------------
(* Properties of concurrent invocations (checked under SpecConcurrent) *)

\* an invocation that never runs
Idle == NewInvocation(<<>>, <<>>, [connect_ok |-> FALSE, status |-> 0, body |-> "",
                                   body_ok |-> TRUE, lines |-> <<>>, end |-> "eof"])

\* the invocation with the arguments and the response of st, run alone to its end
RECURSIVE RunAlone(_)
RunAlone(st) == IF st.pc = "done" THEN st ELSE RunAlone(Advance(st, Idle, temperature))

AloneRunOf(st) == RunAlone(NewInvocation(st.messages, st.tools, st.script))

IsPrefix(a, b) == Len(a) <= Len(b) /\ a = SubSeq(b, 1, Len(a))

-----------------------------------------------------------------------------
(* Properties of cancellation (checked under SpecCancel) *)

-----------------------------------------------------------------------------
(* The model names a caller may ask about: a family name, bare or behind   *)
(* provider path segments.                                                 *)

ProviderPrefixes == {"", "models/", "google/", "openrouter/google/"}

ModelFamilies ==
    {"gemini-2.5-flash", "gemini-1.5-pro", "gemini-3-flash-preview", "gemini-3-pro",
     "gemini-30", "gemini-3", "gemini-4", "gemini-5-pro", "gemini-6", "gemini-",
     "gemini", "gemini_3", "Gemini-3-pro", "gpt-4o", "claude-3-opus", ""}

ModelNames == {prefix \o family : prefix \in ProviderPrefixes, family \in ModelFamilies}

InitModels ==
    /\ InitTranslator({<<>>}, {<<>>}, {PyNone})
    /\ invocations = <<>>
    /\ model \in ModelNames
    /\ model_checks = EmptyDict
    /\ NoSetup

NextModels == CallIsGeminiModel \/ CallIsGemini3Model

SpecModels == InitModels /\ [][NextModels]_vars

-----------------------------------------------------------------------------
(* Properties of the model-name predicates (checked under SpecModels) *)

RECURSIVE LastSlash(_, _)
\* the position of the last "/" of name at or before position i, 0 when none
LastSlash(name, i) ==
    IF i = 0 THEN 0
    ELSE IF SubSeq(name, i, i) = "/" THEN i
    ELSE LastSlash(name, i - 1)

\* the model identifier without its provider path segments
StripProvider(name) == SubSeq(name, LastSlash(name, Len(name)) + 1, Len(name))

Asked(predicate) == predicate \in DOMAIN model_checks

\* C27: is_gemini_model answers true exactly when the model identifier,
\* with any provider path segment such as "models/" stripped, starts with
\* "gemini-"; for "models/gemini-2.5-flash" the answer is true.
C27_IsGeminiModelOfStrippedName ==
    Asked("is_gemini_model") =>
        /\ model_checks["is_gemini_model"] = StartsWith(StripProvider(model), "gemini-")
        /\ model = "models/gemini-2.5-flash" => model_checks["is_gemini_model"]

\* C28: is_gemini_3_model answers true exactly when the stripped model
\* identifier starts with "gemini-3", "gemini-4" or "gemini-5"; it is false
\* for "gemini-2.5-flash" and true for "gemini-3-flash-preview"; and when it
\* is true, is_gemini_model is true for the same identifier.
C28_IsGemini3ModelOfStrippedName ==
    /\ Asked("is_gemini_3_model") =>
          /\ model_checks["is_gemini_3_model"] =
                \E prefix \in {"gemini-3", "gemini-4", "gemini-5"} :
                    StartsWith(StripProvider(model), prefix)
          /\ model = "gemini-2.5-flash" => ~model_checks["is_gemini_3_model"]
          /\ model = "gemini-3-flash-preview" => model_checks["is_gemini_3_model"]
    /\ Asked("is_gemini_3_model") /\ Asked("is_gemini_model") =>
          (model_checks["is_gemini_3_model"] => model_checks["is_gemini_model"])

-----------------------------------------------------------------------------
(* Tool-role messages that name their function in different ways, after   *)
(* assistant messages that stored a signature under a function name        *)

MaxNameMsgs == 2

\* the tool_call_id and function_name fields a caller may send; None: no field
ToolCallIds == {"f_0", "g_w_0", "call1", "_f", None}
GivenFunctionNames == {"f", "g", "", None}

ToolMsgNamed(id, function_name) ==
    IF id = None /\ function_name = None
    THEN [role |-> "tool", content |-> PyStr("{}")]
    ELSE IF id = None
    THEN [role |-> "tool", function_name |-> function_name, content |-> PyStr("{}")]
    ELSE IF function_name = None
    THEN [role |-> "tool", tool_call_id |-> id, content |-> PyStr("{}")]
    ELSE [role |-> "tool", tool_call_id |-> id, function_name |-> function_name,
          content |-> PyStr("{}")]

NamedToolMsgs ==
    {ToolMsgNamed(id, function_name) :
        id \in ToolCallIds, function_name \in GivenFunctionNames}
    \cup {[role |-> "tool", tool_call_id |-> "g_w_0", content |-> PyStr("{}"),
           thought_signature |-> "sigC"]}

SigningMsgs ==
    {AssistantCalls(<<StoredToolCall(n, 0, "sigA")>>) : n \in {"f", "g", "g_w", "call1"}}

NameUniverse == NamedToolMsgs \cup SigningMsgs

InitNames ==
    /\ InitTranslator(SeqsUpTo(NameUniverse, MaxNameMsgs), {<<>>}, {PyNone})
    /\ invocations = <<>>
    /\ NoModelAsked
    /\ NoSetup

NextNames == BuildMessage

SpecNames == InitNames /\ [][NextNames]_vars

-----------------------------------------------------------------------------
(* Properties of function-name resolution (checked under SpecNames) *)

Underscores(id) == {i \in 1..Len(id) : SubSeq(id, i, i) = "_"}

\* the part of id before its first underscore, the whole id when it has none
BeforeFirstUnderscore(id) ==
    IF Underscores(id) = {} THEN id
    ELSE SubSeq(id, 1, (CHOOSE i \in Underscores(id) :
                            \A j \in Underscores(id) : i <= j) - 1)

\* the name the claim gives to a tool-role message
NameOf(m) ==
    IF "function_name" \in DOMAIN m /\ m.function_name # ""
    THEN m.function_name
    ELSE IF "tool_call_id" \in DOMAIN m THEN BeforeFirstUnderscore(m.tool_call_id)
    ELSE ""

\* the tool-role message translated last, and its functionResponse
ToolJustTranslated == msg_idx > 0 /\ messages[msg_idx].role = "tool"
LastResponse == Last(contents).parts[1].functionResponse

\* C29: the functionResponse of a tool-role message is named by its
\* function_name when that is present and non-empty, whatever the
\* tool_call_id; otherwise by the part of tool_call_id before its first
\* underscore, or the whole tool_call_id when it has no underscore. A message
\* without a signature of its own echoes the pending signature stored under
\* that same name, and none when nothing is stored under it.
C29_FunctionNameResolution ==
    ToolJustTranslated =>
        /\ LastResponse.name = NameOf(messages[msg_idx])
        /\ "thought_signature" \notin DOMAIN messages[msg_idx] =>
              Get(LastResponse, "thought_signature", None)
                  = Get(pending_thought_signatures, NameOf(messages[msg_idx]), None)

\* C29 witness: a tool-role message without function_name whose tool_call_id
\* is "g_w_0" is named "g" and echoes the signature stored under "g".
C29_Witness ==
    /\ ToolJustTranslated
    /\ messages[msg_idx] = [role |-> "tool", tool_call_id |-> "g_w_0", content |-> PyStr("{}")]
    /\ LastResponse.name = "g"
    /\ Get(LastResponse, "thought_signature", None) = "sigA"

-----------------------------------------------------------------------------
(* User and assistant messages whose text is a string or a list of         *)
(* segments, with and without tool calls                                   *)

MaxTextMsgs == 2

TextContents ==
    {PyStr("hi"),
     PyList(<<TextSegment("a")>>),
     PyList(<<TextSegment("a"), TextSegment("b")>>),
     PyList(<<TextSegment("a"), TextSegment("b"), TextSegment("c")>>),
     PyList(<<TextSegment("a"), ImageSegment, TextSegment("b")>>)}

TextMsgs ==
    {[role |-> role, content |-> content] :
        role \in {"user", "assistant"}, content \in TextContents}
    \cup {[role |-> "assistant", content |-> content,
           tool_calls |-> <<StoredToolCall("f", 0, "sigA")>>] : content \in TextContents}
    \cup {[role |-> "assistant", content |-> PyStr("ok"),
           tool_calls |-> <<StoredToolCall("f", 0, None), StoredToolCall("f", 1, None)>>]}

InitText ==
    /\ InitTranslator(SeqsUpTo(TextMsgs, MaxTextMsgs), {<<>>}, {PyNone})
    /\ invocations = <<>>
    /\ NoModelAsked
    /\ NoSetup

NextText == BuildMessage

SpecText == InitText /\ [][NextText]_vars

-----------------------------------------------------------------------------
(* Properties of the text Parts of a message (checked under SpecText) *)

\* the content is a non-empty string, or a non-empty list of text segments
\* each with a non-empty text
IsTextContent(content) ==
    \/ content.t = "str" /\ content.v # ""
    \/ /\ content.t = "list"
       /\ content.items # <<>>
       /\ \A i \in 1..Len(content.items) :
             /\ content.items[i].type = "text"
             /\ content.items[i].text # ""

TextPartsOf(parts) == {p \in 1..Len(parts) : "text" \in DOMAIN parts[p]}
CallPartsOf(parts) == {p \in 1..Len(parts) : "functionCall" \in DOMAIN parts[p]}

\* a user or assistant message with text content was translated last
TextMsgJustTranslated ==
    /\ msg_idx > 0
    /\ messages[msg_idx].role \in {"user", "assistant"}
    /\ IsTextContent(messages[msg_idx].content)

\* C30: the contents entry of a user or assistant message with non-empty
\* text content, a string or a list of any number of text segments, holds
\* exactly one text Part, and that Part comes before every functionCall Part
\* of the entry.
C30_OneTextPartFirst ==
    TextMsgJustTranslated =>
        /\ Len(contents) = Len(origin) /\ Last(origin) = msg_idx
        /\ Cardinality(TextPartsOf(Last(contents).parts)) = 1
        /\ \A p \in TextPartsOf(Last(contents).parts),
              q \in CallPartsOf(Last(contents).parts) : p < q

-----------------------------------------------------------------------------
(* Several exchanges about one function: calls with and without a          *)
(* signature, each followed or not by its answer                           *)

MaxExchangeMsgs == 4

ExchangeMsgs ==
    {AssistantCalls(<<StoredToolCall("f", 0, "sigA")>>),
     AssistantCalls(<<StoredToolCall("f", 0, None)>>),
     ToolById("f_0"),
     [role |-> "tool", tool_call_id |-> "f_0", content |-> PyStr("{}"),
      thought_signature |-> "sigC"],
     UserMsg}

InitExchanges ==
    /\ InitTranslator(SeqsUpTo(ExchangeMsgs, MaxExchangeMsgs), {<<>>}, {PyNone})
    /\ invocations = <<>>
    /\ NoModelAsked
    /\ NoSetup

NextExchanges == BuildMessage

SpecExchanges == InitExchanges /\ [][NextExchanges]_vars

-----------------------------------------------------------------------------
(* Properties of the signatures echoed over several exchanges (checked     *)
(* under SpecExchanges)                                                    *)

\* the calls of the assistant message i that have the id the tool-role
\* message j names
CallsNamedBy(j, i) ==
    IF HasToolCalls(i)
    THEN {c \in 1..Len(messages[i].tool_calls) :
            messages[i].tool_calls[c].id = Get(messages[j], "tool_call_id", "")}
    ELSE {}

\* the tool-role message j answers a call that carried a signature: the
\* latest assistant message before j with a call of that id signed it
AnswersSignedCall(j) ==
    \E i \in 1..(j - 1) :
        /\ CallsNamedBy(j, i) # {}
        /\ \A i2 \in (i + 1)..(j - 1) : CallsNamedBy(j, i2) = {}
        /\ \E c \in CallsNamedBy(j, i) :
              Truthy(Get(messages[i].tool_calls[c], "thought_signature", None))

\* C31: a functionResponse carries a thought_signature only if its tool
\* message carries one itself or the assistant tool_call it answers carried
\* one; the answer to a later unsigned call of a function that was called
\* with a signature in an earlier exchange carries none.
C31_NoStaleSignature ==
    \A j \in 1..msg_idx :
        (IsTool(j) /\ "thought_signature" \in DOMAIN ResponseOf(j)) =>
            \/ Truthy(Get(messages[j], "thought_signature", None))
            \/ AnswersSignedCall(j)

-----------------------------------------------------------------------------
(* A 200 response whose body holds data lines with a JSON payload that is  *)
(* not an object, among chunks of the expected shape                       *)

MaxShapeLines == 3

NonObjectLines ==
    {"data: " \o j \o "\n" : j \in {JsonNumber, JsonString, JsonArray, JsonNull}}

ShapeLines ==
    NonObjectLines
    \cup {"data: " \o j \o "\n" : j \in {JsonTextAB, JsonCallF, JsonTextCUsage}}

ShapeScripts ==
    {[connect_ok |-> TRUE, status |-> 200, body |-> "", body_ok |-> TRUE,
      lines |-> ls, end |-> "eof"] : ls \in SeqsUpTo(ShapeLines, MaxShapeLines)}

InitShape ==
    /\ messages = <<UserMsg>>
    /\ tools = <<>>
    /\ temperature = PyNone
    /\ script \in ShapeScripts
    /\ request_body = EmptyDict
    /\ pc = "start"
    /\ session = "none"
    /\ line_idx = 0
    /\ cursor = NoCursor
    /\ accumulated_text = ""
    /\ accumulated_tool_calls = <<>>
    /\ usage_info = EmptyDict
    /\ events = <<>>
    /\ run = 1
    /\ prev_events = <<>>
    /\ msg_idx = 0
    /\ contents = <<>>
    /\ pending_thought_signatures = EmptyDict
    /\ origin = <<>>
    /\ pending_arg = PyNone
    /\ consumer = "iterating"
    /\ consumed = 0
    /\ result = [content |-> "", tool_calls |-> <<>>, usage |-> EmptyDict,
                 finish_reason |-> "stop"]
    /\ invocations = <<>>
    /\ NoModelAsked
    /\ NoSetup

NextShape ==
    \/ Start
    \/ PostReturns
    \/ ReadLine
    \/ HandleText
    \/ HandleFunctionCall
    \/ HandleUsage
    \/ EndOfStream
    \/ ResumeAfterComplete
    \/ ResumeAfterError

SpecShape == InitShape /\ [][NextShape]_vars

-----------------------------------------------------------------------------
(* Properties of a payload that is not an object (checked under SpecShape) *)

\* the positions of the body's lines whose payload is not an object
NonObjectAt == {i \in 1..Len(script.lines) : script.lines[i] \in NonObjectLines}

\* the first of them
FirstNonObject == CHOOSE i \in NonObjectAt : \A k \in NonObjectAt : i <= k

\* C32: in a 200 response a data line whose payload is valid JSON but not an
\* object (a number, a string, an array, null) ends the stream with exactly
\* one error event and no complete event: the events of the chunks before it
\* stay as they were emitted, the error event is the last event, and no line
\* after it is read.
C32_NonObjectPayloadEndsStream ==
    (NonObjectAt # {} /\ line_idx >= FirstNonObject) =>
        /\ pc \in {"yielded_error", "done"}
        /\ line_idx = FirstNonObject
        /\ Len(events) = EventCountOfLines(SubSeq(script.lines, 1, FirstNonObject - 1)) + 1
        /\ ContentPayloads(events) = TextOfLines(SubSeq(script.lines, 1, FirstNonObject - 1))
        /\ EventsOfType(events, "error") = {Len(events)}
        /\ EventsOfType(events, "complete") = {}
        /\ session = "closed"

\* C32 witness: an array payload came after a chunk that yielded a content
\* event and before another chunk; the generator has ended.
C32_Witness ==
    /\ script.lines = <<"data: " \o JsonTextAB \o "\n", "data: " \o JsonArray \o "\n",
                        "data: " \o JsonTextAB \o "\n">>
    /\ pc = "done"
    /\ line_idx = 2
    /\ events = <<[type |-> "content", content |-> "ab"],
                  [type |-> "error", error |-> "'list' object has no attribute 'get'"]>>

-----------------------------------------------------------------------------
(* The calls of fetch_models_from_provider: every provider, with and       *)
(* without key and URL, against every answer of the provider               *)

DictItem(d) == [t |-> "dict", v |-> d]

ModelLists ==
    {<<>>,
     <<DictItem([id |-> "b"]), DictItem([id |-> "a"])>>,
     <<DictItem([id |-> "c"]), DictItem(EmptyDict), DictItem([id |-> ""]),
       DictItem([id |-> "a"])>>,
     <<DictItem([name |-> "b"]), DictItem([name |-> "a"])>>,
     <<DictItem([id |-> "a"]), PyList(<<>>)>>}

ResponseBodies ==
    {[t |-> "invalid"], PyList(<<>>), [t |-> "dict", v |-> EmptyDict]}
    \cup {[t |-> "dict", v |-> [data |-> items]] : items \in ModelLists}
    \cup {[t |-> "dict", v |-> [models |-> items]] : items \in ModelLists}

Transports ==
    {[kind |-> "client_error"], [kind |-> "timeout"]}
    \cup {[kind |-> "response", status |-> st, body |-> PyList(<<>>)] : st \in {401, 500}}
    \cup {[kind |-> "response", status |-> 200, body |-> b] : b \in ResponseBodies}

Providers ==
    {PROVIDER_OPENAI, PROVIDER_GEMINI, PROVIDER_ANTHROPIC, PROVIDER_OPENROUTER,
     PROVIDER_OLLAMA, PROVIDER_CUSTOM, "other"}

ApiKeys == {"", "k"}
ApiUrls == {None, "", "http://h:1/v1/"}

InitFetch ==
    /\ InitTranslator({<<>>}, {<<>>}, {PyNone})
    /\ invocations = <<>>
    /\ NoModelAsked
    /\ fetch \in {[provider |-> p, api_key |-> k, api_url |-> u, transport |-> tr,
                   pc |-> "idle", requests |-> <<>>, result |-> <<>>] :
                     p \in Providers, k \in ApiKeys, u \in ApiUrls, tr \in Transports}
    /\ flow = NewFlow
    /\ flow_result = [type |-> "none"]
    /\ entries = <<>>
    /\ os_environ = [OPENAI_API_KEY |-> Unset, OPENAI_API_BASE |-> Unset]
    /\ validation = [pc |-> "idle"]

NextFetch == CallFetchModels

SpecFetch == InitFetch /\ [][NextFetch]_vars

-----------------------------------------------------------------------------
(* Properties of fetch_models_from_provider (checked under SpecFetch) *)

FetchDone == fetch.pc # "idle"

\* the entries the answer lists for the provider
ListedItems ==
    Get(fetch.transport.body.v,
        IF fetch.provider = PROVIDER_OLLAMA THEN "models" ELSE "data", <<>>)

\* the id an entry carries for the provider, "" when it carries none
ListedId(item) == Get(item.v, IF fetch.provider = PROVIDER_OLLAMA THEN "name" ELSE "id", "")

\* the request failed: no answer, a status other than 200, or a body that is
\* not the JSON object with a list of objects
FetchFailed ==
    \/ fetch.transport.kind # "response"
    \/ fetch.transport.status # 200
    \/ fetch.transport.body.t # "dict"
    \/ \E i \in 1..Len(ListedItems) : ListedItems[i].t # "dict"

KeyMissing == fetch.api_key = "" /\ fetch.provider # PROVIDER_OLLAMA

NoBaseUrl ==
    /\ fetch.api_url \in {None, ""}
    /\ Get(PROVIDER_URLS, fetch.provider, "") = ""

\* the parts of the claim that do not depend on the provider being Gemini
FetchNeverRaises ==
    /\ fetch.pc = "returned"
    /\ \A i \in 1..Len(fetch.result) : fetch.result[i] # ""
    /\ (fetch.requests # <<>> /\ FetchFailed) => fetch.result = <<>>
    /\ (fetch.requests # <<>> /\ ~FetchFailed) =>
          /\ {fetch.result[i] : i \in 1..Len(fetch.result)}
                = {ListedId(ListedItems[i]) : i \in 1..Len(ListedItems)} \ {""}
          /\ \A i \in 1..(Len(fetch.result) - 1) :
                IdRank(fetch.result[i]) <= IdRank(fetch.result[i + 1])
    /\ Len(fetch.requests) <= 1
    /\ (KeyMissing \/ NoBaseUrl) => (fetch.result = <<>> /\ fetch.requests = <<>>)

\* C33 as stated: fetch_models_from_provider never raises; it returns a list
\* of model ids, empty on any failure, empty without a request when the API
\* key is missing and the provider is not Ollama or when no base URL is
\* known, and the static Gemini list without a request when the provider is
\* Gemini.
C33_FetchNeverRaises_AsStated ==
    FetchDone =>
        /\ FetchNeverRaises
        /\ fetch.provider = PROVIDER_GEMINI =>
              (fetch.result = GEMINI_MODELS /\ fetch.requests = <<>>)

\* C33, amended: as stated, but the static Gemini list is returned when the
\* provider is Gemini and an API key is given; without a key the result is
\* empty for Gemini as for every provider but Ollama.
C33_FetchNeverRaises ==
    FetchDone =>
        /\ FetchNeverRaises
        /\ (fetch.provider = PROVIDER_GEMINI /\ fetch.api_key # "") =>
              (fetch.result = GEMINI_MODELS /\ fetch.requests = <<>>)

\* C33 witness: OpenAI answered 200 with two models out of order; the call
\* returned them sorted after one request.
C33_Witness ==
    /\ fetch.pc = "returned"
    /\ fetch.provider = PROVIDER_OPENAI
    /\ fetch.api_url = None
    /\ fetch.requests = <<"https://api.openai.com/v1/models">>
    /\ fetch.result = <<"a", "b">>

-----------------------------------------------------------------------------
(* The aiassistant ConfigFlow under any sequence of step calls *)

UserInputs ==
    {PyNone} \cup {[provider |-> p] : p \in {PROVIDER_OPENAI, PROVIDER_OLLAMA,
                                              PROVIDER_CUSTOM}}

CredentialsInputs ==
    {PyNone, EmptyDict, [api_key |-> "k"]}
    \cup {[api_key |-> k, api_url |-> u] : k \in {"", "k"}, u \in {"", "http://h:1/v1/"}}

ConfigureInputs ==
    {PyNone, [model |-> "m"], [model |-> "n", log_level |-> "debug"],
     [model |-> "m", api_key |-> ""], [model |-> "m", api_key |-> "k2"]}

\* what the provider answers when the flow asks for its models
FlowTransports ==
    {[kind |-> "client_error"],
     [kind |-> "response", status |-> 200,
      body |-> [t |-> "dict", v |-> [data |-> <<DictItem([id |-> "b"]),
                                                 DictItem([id |-> "a"])>>]]]}

InitFlow ==
    /\ InitTranslator({<<>>}, {<<>>}, {PyNone})
    /\ invocations = <<>>
    /\ NoModelAsked
    /\ NoSetup

\* the flow manager calls a step, with the user's submission or without one
CallStepUser == \E user_input \in UserInputs : StepUser(user_input)

CallStepCredentials ==
    \E user_input \in CredentialsInputs, transport \in FlowTransports :
        StepCredentials(user_input, transport)

CallStepConfigure ==
    \E user_input \in ConfigureInputs, openai_ok \in BOOLEAN, configured \in BOOLEAN :
        StepConfigure(user_input, openai_ok, configured)

NextFlow == CallStepUser \/ CallStepCredentials \/ CallStepConfigure

SpecFlow == InitFlow /\ [][NextFlow]_vars

-----------------------------------------------------------------------------
(* Properties of the ConfigFlow (checked under SpecFlow) *)

\* this step is the call of "configure" with the submission user_input
ConfigureSubmitted(user_input, openai_ok, configured) ==
    /\ user_input # PyNone
    /\ StepConfigure(user_input, openai_ok, configured)

\* the data collected before the step is still there after it, changed only
\* where the submission says so (an empty API URL becomes the default)
DataKept(user_input) ==
    /\ \A k \in DOMAIN flow._data :
          /\ k \in DOMAIN flow'._data
          /\ (k \notin DOMAIN user_input /\ k # "api_url") => flow'._data[k] = flow._data[k]
    /\ \A k \in DOMAIN user_input :
          k # "api_url" => flow'._data[k] = user_input[k]
    /\ <<flow'._provider, flow'._api_key, flow'._api_url, flow'._fetched_models>>
          = <<flow._provider, flow._api_key, flow._api_url, flow._fetched_models>>

\* a step that creates an entry is a configure submission whose data
\* validate_input accepted
C34_EntryOnlyAfterValidation ==
    entries' # entries =>
        /\ Len(entries') = Len(entries) + 1
        /\ \E user_input \in ConfigureInputs, configured \in BOOLEAN :
              /\ ConfigureSubmitted(user_input, TRUE, configured)
              /\ validate_input(flow'._data, TRUE) = "ok"
              /\ Last(entries').data = flow'._data

\* a configure submission that validate_input rejects shows the configure
\* form again with the error, creates no entry and keeps the data
C34_RejectedSubmission ==
    \A user_input \in ConfigureInputs, openai_ok \in BOOLEAN, configured \in BOOLEAN :
        (/\ ConfigureSubmitted(user_input, openai_ok, configured)
         /\ validate_input(flow'._data, openai_ok) # "ok")
        => /\ flow_result'.type = "form"
           /\ flow_result'.step_id = "configure"
           /\ flow_result'.errors
                 = [base |-> IF validate_input(flow'._data, openai_ok) = "ValueError"
                             THEN "cannot_connect" ELSE "unknown"]
           /\ entries' = entries
           /\ DataKept(user_input)

\* C34: over any sequence of calls of the steps user, credentials and
\* configure, a config entry is created only by a configure submission for
\* which validate_input succeeded; when validate_input fails the configure
\* form is shown again with errors.base "cannot_connect" (ValueError) or
\* "unknown" (another exception), no entry is created, and the data
\* collected so far is kept for the next submission.
C34_EntryOnlyWhenValidated ==
    [][C34_EntryOnlyAfterValidation /\ C34_RejectedSubmission]_vars

\* C34 witness: after a rejected submission the configure form shows the
\* error, no entry exists, and the provider, key and URL collected by the
\* earlier steps are still in the data, with the model just submitted.
C34_Witness ==
    /\ flow_result = [type |-> "form", step_id |-> "configure",
                      errors |-> [base |-> "cannot_connect"]]
    /\ entries = <<>>
    /\ flow._data = [provider |-> "ollama", api_key |-> "k", api_url |-> "http://h:1/v1/",
                     model |-> "m"]
    /\ flow._fetched_models = <<"a", "b">>

-----------------------------------------------------------------------------
(* The calls of validate_input of ai_config_agent: every state of the two  *)
(* environment variables, with and without key and URL                     *)

EnvironValues == {Unset, PyStr(""), PyStr("old")}

ValidationData ==
    {[api_key |-> k, api_url |-> u] : k \in {"", "k"}, u \in {"", "http://h:1/v1"}}
    \cup {[api_key |-> "k"], EmptyDict}

DefaultUrls == {"", "https://api.openai.com/v1"}

InitValidate ==
    /\ InitTranslator({<<>>}, {<<>>}, {PyNone})
    /\ invocations = <<>>
    /\ NoModelAsked
    /\ fetch = NoFetch
    /\ flow = NewFlow
    /\ flow_result = [type |-> "none"]
    /\ entries = <<>>
    /\ os_environ \in [{"OPENAI_API_KEY", "OPENAI_API_BASE"} -> EnvironValues]
    /\ \E data \in ValidationData :
          validation = [pc |-> "idle", data |-> data, before |-> os_environ,
                        during |-> os_environ]

NextValidate ==
    \E openai_imports \in BOOLEAN, client_ok \in BOOLEAN, default_url \in DefaultUrls :
        CallValidateInput(openai_imports, client_ok, default_url)

SpecValidate == InitValidate /\ [][NextValidate]_vars

-----------------------------------------------------------------------------
(* Properties of validate_input of ai_config_agent (checked under          *)
(* SpecValidate)                                                           *)

\* C35: after validate_input has returned or raised, OPENAI_API_KEY and
\* OPENAI_API_BASE have exactly the state they had before the call: a
\* variable that was not set is not set, and a variable that was set has its
\* value again, the empty string included.
C35_EnvironmentRestored ==
    validation.pc \in {"returned", "raised"} => os_environ = validation.before

====
